---- MODULE Spec2Model ----
(***************************************************************************)
(* Consensus-to-application pipeline of the node: the edge-node gossip     *)
(* worker (core/consensus/src/edge_node.rs) and the parcel execution       *)
(* engine (core/consensus/src/execution.rs).                               *)
(*                                                                         *)
(* The specifications share the state:                                     *)
(*   SpecExec    calls on Execution directly (store_parcel,                *)
(*               store_attestation, try_execute with any threshold);       *)
(*   Spec        the message receiver worker: pub/sub events, parcel       *)
(*               timers, epoch-changed notifications, and the ordering     *)
(*               layer's output on a committee node;                       *)
(*   SpecTimers  the worker of an edge node under enough valid events to   *)
(*               reach the cap on parcel timers;                           *)
(*   SpecSelect  the worker's select loop with queued events and the       *)
(*               shutdown signal;                                          *)
(*   SpecOutput  handle_consensus_output on every bounded output.          *)
(***************************************************************************)
EXTENDS Integers, Sequences, FiniteSets, TLC

\* ------------------------------------------------------------- bounds
\* Node indices are 0..MaxNode.
MaxNode == 2
\* Parcel digests are 1..MaxDigest; digest 0 is the head at genesis.
MaxDigest == 3
\* The application stops changing epoch at MaxEpoch.
MaxEpoch == 2
\* Thresholds tried by direct callers of Execution::try_execute.
MaxThreshold == 2
\* Capacity of the pending_requests cache (100 in the source).
RequestCacheCapacity == 2
\* Cap on outstanding parcel timers (100 in the source).
MAX_PENDING_TIMEOUTS == 2
\* Capacity of the timeout channel (128 in the source, above the cap on
\* outstanding timers).
TimeoutChannelCapacity == 3
\* Number of pub/sub events the worker receives in one behaviour.
MaxEvents == 3
\* Number of direct calls on Execution in one behaviour.
MaxCalls == 5
\* Number of pub/sub events that arrive in one behaviour of SpecSelect, and
\* the number pub/sub holds ready at a time.
MaxArrivals == 6
MaxInbox == 1
\* Number of pub/sub events the edge node receives in one behaviour of
\* SpecTimers.
MaxTimerEvents == 5
\* Certificates in a consensus output, batches under a certificate,
\* transactions in a batch, and distinct transactions.
MaxCerts == 2
MaxBatchesPerCert == 2
MaxTxnsPerBatch == 1
MaxTxn == 3
\* Number of consensus outputs delivered in one behaviour of SpecOutput.
MaxOutputs == 1
\* Number of calls of update_estimated_tbe in one behaviour of SpecTbe.
MaxTbeUpdates == 19
\* Futures waiting for the shutdown that are alive at a time, and sleeps
\* shutdown() is followed through, in SpecShutdown.
MaxFutures == 2
MaxSleeps == 4
\* Application state in SpecEpoch: the highest node index, the last epoch the
\* state is followed into, and the last round of the committee selection
\* beacon.
MaxAppNode == 4
MaxAppEpoch == 1
MaxRound == 1
\* Nodes whose opt-in or opt-out may be waiting for the epoch boundary at a
\* time.
MaxOpted == 1
\* Calls of sign_new_tx, and the time the signer is followed for, in
\* timeouts, in SpecSigner.
MaxSigned == 2
MaxTimeouts == 3
\* Events the worker receives in SpecRollover.
MaxRolloverEvents == 5
\* Decimals of the fixed-point numbers of the supply (18 in the source;
\* the truncation is the same at every precision), and the last epoch the
\* supply is followed into, in SpecSupply.
HpDecimals == 3
MaxSupplyEpoch == 7

\* ---------------------------------------------------------- constants
\* Number of distinct transaction batches a parcel can carry.
NumBatches == 2

Nodes == 0..MaxNode
\* unwrap_or(u32::MAX): the index of a node that has none, above every index.
NoNodeIndex == MaxNode + 1
Digests == 1..MaxDigest
GenesisHead == 0
NoDigest == GenesisHead - 1
FirstEpoch == 1
\* Durations are in milliseconds.
MIN_TBE == 30000
MAX_TBE == 40000
PARCEL_TIMEOUT == 30000
\* ParcelTimeoutData of a new Execution.
InitialEstimatedTbe == 30000
InitialDeviationTbe == 5000
\* TBE_EMA = 0.125 = 1 / TbeEmaInverse.
TbeEmaInverse == 8
\* tokio::time::sleep(Duration::from_secs(5)) in shutdown(), in milliseconds.
SHUTDOWN_SLEEP == 5000
\* The signer resends after TIMEOUT seconds, a transaction at most
\* MAX_RETRIES times in all.
TIMEOUT == 60
MAX_RETRIES == 3
\* Times timestamp.elapsed() may report when a chain is executed.
SampleTbe == {0, 100000}
Epochs == FirstEpoch..MaxEpoch
\* Epochs a gossip message can state: one older than the first, up to two ahead.
MsgEpochs == (FirstEpoch - 1)..(MaxEpoch + 2)

\* The committee of the first epoch and the committees the application may
\* select at an epoch change.
GenesisCommittee == {0, 1}
NextCommittees == {{0, 1, 2}, {1, 2}}
\* The index the state holds for this node's public key.
OurIndexChoices == {0, 2, NoNodeIndex}

VARIABLES
  \* application state, read through the query runner
  epoch, st_committee, st_index, head,
  \* TransactionStore (message_digests: the digests of the stored parcels
  \* that carry Some(message_digest))
  parcels, attestations, pending_parcels, pending_attestations,
  message_digests,
  \* Execution
  pending_digests, executed_digests, executed_log, parcel_timeout_data,
  \* message_receiver_worker locals
  committee, quorom_threshold, our_index, on_committee,
  pending_timeouts, pending_requests, timers, timeout_rx, epoch_changed_sub,
  \* where the worker is (select: waiting in tokio::select!, handle: about
  \* to run handle_pubsub_event on msg, done: the handler has returned), the
  \* pub/sub event it received, and the number of events received so far
  pc, msg, events,
  \* the permit shutdown() stored in shutdown_notify, and the events pub/sub
  \* holds ready for recv_event()
  shutdown, inbox,
  \* the consensus output the ordering layer is about to deliver
  co,
  \* ShutdownController: SharedState.capture_backtrace, whether the shutdown
  \* was triggered, the number of futures waiting for the shutdown that have
  \* not dropped, and the call of shutdown(): where it is (idle, select,
  \* returned), its loop index i, the time it has slept in milliseconds,
  \* and what the controller did last
  capture_backtrace, is_shutdown, pending_futures, sd_pc, sd_i, sd_slept, sd_out,
  \* application state: metadata Epoch, the committee table (epoch ->
  \* members, ready_to_change), the committee selection beacon phase, the
  \* node table (stake, participation), and the receipt of the transaction
  \* executed last
  state_epoch, committee_info, beacon_phase, node_info, receipt,
  \* application state: the genesis parameters of the reward emission, and
  \* the metadata TotalSupply and SupplyYearStart (fixed-point numbers, in
  \* units of their last decimal)
  genesis_params, total_supply, supply_year_start,
  \* SignerState; the clock; the number of sign_new_tx calls; the payloads
  \* the mempool has taken; how many times each transaction was handed to
  \* it with success; the nonces the application holds for this node; and
  \* what the signer did last
  base_nonce, next_nonce, next_secondary_nonce, base_timestamp,
  pending_transactions, now, signed, mempool, handed, app_nonce,
  app_secondary_nonce, signer_out,
  \* what the last step called on its collaborators
  out

app_vars == <<epoch, st_committee, st_index, head>>
store_vars == <<parcels, attestations, pending_parcels, pending_attestations,
                message_digests>>
exec_vars == <<pending_digests, executed_digests, executed_log,
               parcel_timeout_data>>
worker_vars == <<committee, quorom_threshold, our_index, on_committee,
                 pending_timeouts, pending_requests, timers, timeout_rx,
                 epoch_changed_sub, pc, msg, events>>
loop_vars == <<shutdown, inbox>>
ctl_vars == <<capture_backtrace, is_shutdown, pending_futures, sd_pc, sd_i,
              sd_slept, sd_out>>
state_vars == <<state_epoch, committee_info, beacon_phase, node_info, receipt>>
supply_vars == <<genesis_params, total_supply, supply_year_start>>
signer_vars == <<base_nonce, next_nonce, next_secondary_nonce, base_timestamp,
                 pending_transactions, now, signed, mempool, handed, app_nonce,
                 app_secondary_nonce, signer_out>>
ext_vars == <<supply_vars, signer_vars>>
other_vars == <<ctl_vars, state_vars, ext_vars>>
vars == <<app_vars, store_vars, exec_vars, worker_vars, loop_vars, co,
          other_vars, out>>

\* ------------------------------------------------------------ helpers
Range(s) == {s[i] : i \in 1..Len(s)}

RECURSIVE Reverse(_)
Reverse(s) == IF s = <<>> THEN <<>> ELSE Append(Reverse(Tail(s)), Head(s))

\* All orders in which a HashSet of digests may be iterated.
RECURSIVE Orders(_)
Orders(S) ==
  IF S = {} THEN {<<>>}
  ELSE UNION {{<<x>> \o o : o \in Orders(S \ {x})} : x \in S}

\* ------------------------------------------------------------ parcels
\* AuthenticStampedParcel::to_digest hashes the transactions and last_executed
\* (not epoch, not sub_dag_index).  The hash is modelled as an injective
\* numbering of the pairs (last_executed, transactions).
to_digest(p) == p.last_executed * NumBatches + p.transactions + 1

\* The parcel a digest is the hash of (the hash is collision free).
LastExecuted(d) == (d - 1) \div NumBatches
Transactions(d) == (d - 1) % NumBatches
ParcelOf(d, e) ==
  [transactions |-> Transactions(d), last_executed |-> LastExecuted(d), epoch |-> e]

\* Transactions are 1..MaxTxn; BadTxn is one TransactionRequest::try_from
\* rejects.
Txns == 1..MaxTxn
BadTxn == MaxTxn
\* A parcel's transactions field is the number of its payload (a list of
\* transactions), counted from 0 for the payload <<1>>.
RECURSIVE payload_code(_)
payload_code(payload) ==
  IF payload = <<>> THEN 0
  ELSE Head(payload) + (MaxTxn + 1) * payload_code(Tail(payload))
RECURSIVE payload_of_code(_)
payload_of_code(code) ==
  IF code = 0 THEN <<>>
  ELSE <<code % (MaxTxn + 1)>> \o payload_of_code(code \div (MaxTxn + 1))
PayloadOf(transactions) == payload_of_code(transactions + 1)
\* The sub_dag_index the parcel of digest d carries (it is not hashed; one
\* index per parcel content, apart from every digest).
SubDagIndexOf(d) == MaxDigest + d

\* ------------------------------------------------- TransactionStore
\* get_parcel(digest).is_some()
get_parcel_present(P, digest) == digest \in P
\* store_parcel inserts the parcel under its digest with the message digest
\* it is given, in place of an older entry.
store_message_digest(M, parcel, has_message_digest) ==
  IF has_message_digest THEN M \cup {to_digest(parcel)} ELSE M \ {to_digest(parcel)}
\* get_attestations(digest).map(|x| x.len()); no entry counts as none.
num_attestations(A, digest) ==
  IF digest \in DOMAIN A THEN Cardinality(A[digest]) ELSE 0
store_parcel(P, parcel) == P \cup {to_digest(parcel)}
store_attestation(A, digest, node_index) ==
  [A EXCEPT ![digest] = @ \cup {node_index}]

\* ---------------------------------------------------------- Execution
\* get_parcel_timeout without timeout.min(MAX_TBE).
get_parcel_timeout_no_min(data) ==
  LET timeout == 4 * data.deviation_tbe + data.estimated_tbe IN
  IF timeout > MIN_TBE THEN timeout ELSE MIN_TBE

\* get_parcel_timeout: 4 * deviation + estimate, clamped to [MIN_TBE, MAX_TBE].
get_parcel_timeout(data) ==
  LET timeout == 4 * data.deviation_tbe + data.estimated_tbe
      at_least == IF timeout > MIN_TBE THEN timeout ELSE MIN_TBE IN
  IF at_least < MAX_TBE THEN at_least ELSE MAX_TBE

\* update_estimated_tbe; sample_tbe: what last_executed_timestamp.elapsed()
\* reports.  The f64 results are truncated to whole milliseconds; the
\* deviation uses the estimate before truncation.
update_estimated_tbe(data, sample_tbe) ==
  IF ~data.stamped THEN [data EXCEPT !.stamped = TRUE]
  ELSE LET eighths == (TbeEmaInverse - 1) * data.estimated_tbe + sample_tbe
           diff == eighths - TbeEmaInverse * sample_tbe
           abs == IF diff < 0 THEN -diff ELSE diff IN
       [stamped |-> TRUE,
        estimated_tbe |-> eighths \div TbeEmaInverse,
        deviation_tbe |->
          ((TbeEmaInverse - 1) * TbeEmaInverse * data.deviation_tbe + abs)
            \div (TbeEmaInverse * TbeEmaInverse)]

\* submit_batch's filter_map: the transactions that deserialize and whose
\* hash the application has not executed.
RECURSIVE block_transactions(_, _)
block_transactions(payload, executed_txns) ==
  IF payload = <<>> THEN <<>>
  ELSE LET txn == Head(payload)
           rest == block_transactions(Tail(payload), executed_txns) IN
       IF txn # BadTxn /\ txn \notin executed_txns THEN <<txn>> \o rest ELSE rest

\* The part of the state try_execute reads and writes, threaded through the
\* operators below:  head, epoch, st_committee, pending, executed, log,
\* notes (epoch_changed notifications emitted), tbe (parcel_timeout_data),
\* blocks (the blocks run by the executor in this call); and what the call
\* reads from its surroundings: elapsed (the clock) and executed_txns (the
\* application's table of executed transactions).
ExecState ==
  [head |-> head, epoch |-> epoch, st_committee |-> st_committee,
   pending |-> pending_digests, executed |-> executed_digests,
   log |-> executed_log, notes |-> epoch_changed_sub,
   tbe |-> parcel_timeout_data, blocks |-> <<>>,
   elapsed |-> 0, executed_txns |-> co.executed]

\* submit_batch: the application executes the block, the head becomes the
\* block's digest; the block changes the epoch when the application says so
\* (chg: the digests whose block ends the epoch, newc: the committee selected).
submit_batch(E, payload, digest, sub_dag_index, chg, newc) ==
  LET change_epoch == digest \in chg /\ E.epoch < MaxEpoch
      block == [digest |-> digest, sub_dag_index |-> sub_dag_index,
                payload |-> payload,
                transactions |-> block_transactions(payload, E.executed_txns)] IN
  [E |-> [E EXCEPT !.head = digest,
                   !.log = Append(@, digest),
                   !.blocks = Append(@, block),
                   !.epoch = IF change_epoch THEN @ + 1 ELSE @,
                   !.st_committee = IF change_epoch THEN newc ELSE @,
                   !.notes = IF change_epoch THEN @ + 1 ELSE @],
   changed |-> change_epoch]

\* Mutant: the walk takes the first stored parcel as connected, whatever the
\* head is.
walk_chain_any_head(P, last_digest, parcel_chain, hd) ==
  IF ~get_parcel_present(P, last_digest)
    THEN [closed |-> FALSE, parcel_chain |-> parcel_chain, last_digest |-> last_digest]
    ELSE [closed |-> TRUE, parcel_chain |-> Append(parcel_chain, last_digest),
          last_digest |-> last_digest]

\* The loop of try_execute_chain that walks last_executed pointers.
RECURSIVE walk_chain(_, _, _, _)
walk_chain(P, last_digest, parcel_chain, hd) ==
  IF ~get_parcel_present(P, last_digest)
    THEN [closed |-> FALSE, parcel_chain |-> parcel_chain, last_digest |-> last_digest]
    ELSE LET pushed == Append(parcel_chain, last_digest) IN
         IF LastExecuted(last_digest) = hd
           THEN [closed |-> TRUE, parcel_chain |-> pushed, last_digest |-> last_digest]
           ELSE walk_chain(P, LastExecuted(last_digest), pushed, hd)

\* Mutant: the deque is filled with push_back, the target's batch first.
txn_chain_of_push_back(parcel_chain) ==
  [i \in 1..Len(parcel_chain) |->
     [batch |-> PayloadOf(Transactions(parcel_chain[i])),
      sub_dag_index |-> SubDagIndexOf(parcel_chain[i]),
      digest |-> parcel_chain[i]]]

\* txn_chain.push_front((transactions, sub_dag_index, last_digest)) for every
\* parcel of the walk: the entries in the order of the deque.
txn_chain_of(parcel_chain) ==
  LET front_first == Reverse(parcel_chain) IN
  [i \in 1..Len(front_first) |->
     [batch |-> PayloadOf(Transactions(front_first[i])),
      sub_dag_index |-> SubDagIndexOf(front_first[i]),
      digest |-> front_first[i]]]

\* for (batch, sub_dag_index, digest) in txn_chain { submit_batch(..) }
RECURSIVE submit_all(_, _, _, _, _)
submit_all(E, txn_chain, chg, newc, epoch_changed) ==
  IF txn_chain = <<>> THEN [E |-> E, changed |-> epoch_changed]
  ELSE LET entry == Head(txn_chain)
           r == submit_batch(E, entry.batch, entry.digest, entry.sub_dag_index,
                             chg, newc) IN
       submit_all(r.E, Tail(txn_chain), chg, newc, epoch_changed \/ r.changed)

\* Mutant: MissingParcel names the target digest, not the digest at the gap.
try_execute_chain_reports_target(E, P, digest, hd, chg, newc) ==
  LET w == walk_chain(P, digest, <<>>, hd) IN
  IF w.closed
    THEN LET r == submit_all(E, txn_chain_of(w.parcel_chain), chg, newc, FALSE) IN
         [E |-> [r.E EXCEPT !.pending = @ \ Range(w.parcel_chain),
                            !.executed = @ \cup Range(w.parcel_chain),
                            !.tbe = update_estimated_tbe(@, E.elapsed)],
          res |-> "Ok", changed |-> r.changed, digest |-> NoDigest, timeout |-> 0]
    ELSE [E |-> [E EXCEPT !.pending = @ \cup Range(w.parcel_chain)],
          res |-> "MissingParcel", changed |-> FALSE, digest |-> digest,
          timeout |-> get_parcel_timeout(E.tbe)]

try_execute_chain(E, P, digest, hd, chg, newc) ==
  LET w == walk_chain(P, digest, <<>>, hd) IN
  IF w.closed
    THEN LET txn_chain == txn_chain_of(w.parcel_chain)
             r == submit_all(E, txn_chain, chg, newc, FALSE) IN
         [E |-> [r.E EXCEPT !.pending = @ \ Range(w.parcel_chain),
                            !.executed = @ \cup Range(w.parcel_chain),
                            !.tbe = update_estimated_tbe(@, E.elapsed)],
          res |-> "Ok", changed |-> r.changed, digest |-> NoDigest, timeout |-> 0]
    ELSE [E |-> [E EXCEPT !.pending = @ \cup Range(w.parcel_chain)],
          res |-> "MissingParcel", changed |-> FALSE, digest |-> w.last_digest,
          timeout |-> get_parcel_timeout(E.tbe)]

\* Mutant: the attestation count of the target is not checked.
try_execute_internal_no_quorum(E, P, A, digest, threshold, hd, chg, newc) ==
  IF digest \in E.pending
    THEN [E |-> E, res |-> "Ok", changed |-> FALSE, digest |-> NoDigest,
          timeout |-> 0]
    ELSE try_execute_chain(E, P, digest, hd, chg, newc)

\* Mutant: the attestation count is compared one too low.
try_execute_internal_off_by_one(E, P, A, digest, threshold, hd, chg, newc) ==
  IF digest \in E.pending
    THEN [E |-> E, res |-> "Ok", changed |-> FALSE, digest |-> NoDigest,
          timeout |-> 0]
  ELSE IF num_attestations(A, digest) + 1 >= threshold
    THEN try_execute_chain(E, P, digest, hd, chg, newc)
  ELSE [E |-> E, res |-> "MissingAttestations", changed |-> FALSE, digest |-> digest,
        timeout |-> 0]

try_execute_internal(E, P, A, digest, threshold, hd, chg, newc) ==
  IF digest \in E.pending
    THEN [E |-> E, res |-> "Ok", changed |-> FALSE, digest |-> NoDigest,
          timeout |-> 0]
  ELSE IF num_attestations(A, digest) >= threshold
    THEN try_execute_chain(E, P, digest, hd, chg, newc)
  ELSE [E |-> E, res |-> "MissingAttestations", changed |-> FALSE, digest |-> digest,
        timeout |-> 0]

\* The loop of try_execute over the digests that were pending when it started.
RECURSIVE retry_pending(_, _, _, _, _, _, _, _)
retry_pending(E, P, A, digests, threshold, chg, newc, epoch_changed) ==
  IF digests = <<>> THEN [E |-> E, changed |-> epoch_changed]
  ELSE LET d == Head(digests) IN
       IF d \in E.pending
         THEN LET r == try_execute_internal(E, P, A, d, threshold, E.head, chg, newc) IN
              retry_pending(r.E, P, A, Tail(digests), threshold, chg, newc,
                            IF r.res = "Ok" THEN epoch_changed \/ r.changed
                                            ELSE epoch_changed)
         ELSE retry_pending(E, P, A, Tail(digests), threshold, chg, newc, epoch_changed)

\* Execution::try_execute.  order: the iteration order of pending_digests.
try_execute(E, P, A, digest, threshold, order, chg, newc) ==
  LET first == try_execute_internal(E, P, A, digest, threshold, E.head, chg, newc) IN
  IF first.res = "MissingParcel" THEN first
  ELSE LET l == retry_pending(first.E, P, A, order, threshold, chg, newc,
                              first.res = "Ok" /\ first.changed) IN
       [E |-> l.E, res |-> "Ok", changed |-> l.changed, digest |-> NoDigest,
        timeout |-> 0]

\* flat_map over the batches of one certificate, then flatten over the
\* certificates: the lists joined in order.
RECURSIVE flatten(_)
flatten(lists) ==
  IF lists = <<>> THEN <<>> ELSE Head(lists) \o flatten(Tail(lists))

\* Mutant: the certificates of other epochs are not skipped.
batch_payload_any_epoch(certs, current_epoch) ==
  flatten([i \in 1..Len(certs) |-> flatten(certs[i].batches)])

\* handle_consensus_output's filter_map: the transactions of the batches
\* whose certificate is of the current epoch.
RECURSIVE batch_payload(_, _)
batch_payload(certs, current_epoch) ==
  IF certs = <<>> THEN <<>>
  ELSE LET cert == Head(certs)
           rest == batch_payload(Tail(certs), current_epoch) IN
       IF cert.epoch # current_epoch THEN rest
       ELSE flatten(cert.batches) \o rest

\* The parcel field of handle_consensus_output's result when none is built.
NoParcel == [transactions |-> 0, last_executed |-> 0, epoch |-> 0]

\* Mutant: the parcel's epoch is read after the block is executed.
handle_consensus_output_epoch_after(E, certs, changes_epoch, newc) ==
  LET payload == batch_payload(certs, E.epoch) IN
  IF payload = <<>>
    THEN [E |-> E, emitted |-> FALSE, changed |-> FALSE, digest |-> NoDigest,
          parcel |-> NoParcel]
    ELSE LET parcel == [transactions |-> payload_code(payload) - 1,
                        last_executed |-> E.head, epoch |-> E.epoch]
             digest == to_digest(parcel)
             r == submit_batch(E, payload, digest, SubDagIndexOf(digest),
                               IF changes_epoch THEN {digest} ELSE {}, newc) IN
         [E |-> r.E, emitted |-> TRUE, changed |-> r.changed, digest |-> digest,
          parcel |-> [parcel EXCEPT !.epoch = r.E.epoch]]

\* Execution::handle_consensus_output: nothing for an empty payload; else the
\* parcel built on the head is submitted under its digest and sent, with
\* epoch_changed, on tx_narwhal_batches (parcel: the parcel sent).
handle_consensus_output(E, certs, changes_epoch, newc) ==
  LET payload == batch_payload(certs, E.epoch) IN
  IF payload = <<>>
    THEN [E |-> E, emitted |-> FALSE, changed |-> FALSE, digest |-> NoDigest,
          parcel |-> NoParcel]
    ELSE LET parcel == [transactions |-> payload_code(payload) - 1,
                        last_executed |-> E.head, epoch |-> E.epoch]
             digest == to_digest(parcel)
             r == submit_batch(E, payload, digest, SubDagIndexOf(digest),
                               IF changes_epoch THEN {digest} ELSE {}, newc) IN
         [E |-> r.E, emitted |-> TRUE, changed |-> r.changed, digest |-> digest,
          parcel |-> parcel]

\* The digests try_execute(digest, ..) submits from the current state.
WillSubmit(P, A, digest, threshold, order) ==
  LET r == try_execute(ExecState, P, A, digest, threshold, order, {}, {}) IN
  {r.E.log[i] : i \in (Len(executed_log) + 1)..Len(r.E.log)}

\* ------------------------------------------------- edge_node.rs helpers
Ceil(a, b) == (a + b - 1) \div b

\* Mutant: the quorum rounds 2n/3 up.
quorum_of_ceil(c) == Ceil(Cardinality(c) * 2, 3) + 1

\* (committee.len() * 2) / 3 + 1 in usize arithmetic.
quorum_of(c) == (Cardinality(c) * 2) \div 3 + 1

\* Mutant: a message of the next epoch must come from a committee member too.
is_valid_message_members_only(in_committee, msg_epoch, current_epoch) ==
  in_committee /\ (msg_epoch = current_epoch \/ msg_epoch = current_epoch + 1)

is_valid_message(in_committee, msg_epoch, current_epoch) ==
  (in_committee /\ msg_epoch = current_epoch) \/ msg_epoch = current_epoch + 1

\* Mutant: the originator is not compared with att.node_index.
attestation_rejected_any_originator(originator, node_index, is_committee, msg_epoch, current_epoch) ==
  ~((is_committee /\ msg_epoch = current_epoch) \/ msg_epoch = current_epoch + 1)

\* originator != att.node_index || !is_valid_message(..)
attestation_rejected(originator, node_index, is_committee, msg_epoch, current_epoch) ==
  originator # node_index \/ ~is_valid_message(is_committee, msg_epoch, current_epoch)

\* Mutant: a requested parcel is propagated like any other.
parcel_propagate_requested_too(first_remove_none, from_next_epoch) ==
  ~from_next_epoch

\* pending_requests.remove(&parcel_digest).is_none() && !from_next_epoch
parcel_propagate(first_remove_none, from_next_epoch) ==
  first_remove_none /\ ~from_next_epoch

\* Mutant: an attestation of the next epoch is stored as a normal one.
attestation_store_cmd_never_pending(from_next_epoch) == "StoreAttestation"

\* The store command handle_attestation sends on a node that is not on the
\* committee.
attestation_store_cmd(from_next_epoch) ==
  IF from_next_epoch THEN "StorePendingAttestation" ELSE "StoreAttestation"

\* The store command handle_parcel sends.
parcel_store_cmd(from_next_epoch) ==
  IF from_next_epoch THEN "StorePendingParcel" ELSE "StoreParcel"

\* Mutant: a timer is spawned although the digest already has one.
set_parcel_timer_no_dedup(digest, T) ==
  IF Cardinality(T[1]) < MAX_PENDING_TIMEOUTS
    THEN <<T[1] \cup {digest}, T[2] \cup {digest}>>
    ELSE T

\* Mutant: a timer is spawned although MAX_PENDING_TIMEOUTS are outstanding.
set_parcel_timer_no_cap(digest, T) ==
  IF digest \notin T[1]
    THEN <<T[1] \cup {digest}, T[2] \cup {digest}>>
    ELSE T

\* set_parcel_timer: T is <<pending_timeouts, timers>>.
set_parcel_timer(digest, T) ==
  IF digest \notin T[1] /\ Cardinality(T[1]) < MAX_PENDING_TIMEOUTS
    THEN <<T[1] \cup {digest}, T[2] \cup {digest}>>
    ELSE T

\* The timeout handle_not_executed passes to set_parcel_timer for the answer
\* r of TryExecute (`timeout: _`: the one r carries is not read).
timer_duration(r) == PARCEL_TIMEOUT

\* handle_not_executed on the answer r of TryExecute.
handle_not_executed(r, T) ==
  IF r.res = "MissingParcel" THEN set_parcel_timer(r.digest, T) ELSE T

\* pending_requests.insert(digest, ()) on a cache of bounded capacity: the
\* states the cache may be in afterwards (a full cache evicts an entry).
cache_insert(C, digest) ==
  IF digest \in C THEN {C}
  ELSE IF Cardinality(C) < RequestCacheCapacity THEN {C \cup {digest}}
  ELSE {(C \ {victim}) \cup {digest} : victim \in C}

\* Mutant: the request is sent whether or not the parcel has arrived.
timeout_requests_always(contains_parcel) == TRUE

\* if !contains_parcel { pub_sub.send(RequestTransactions(digest)) .. }
timeout_requests(contains_parcel) == ~contains_parcel

\* pubkey_to_index(node_public_key).unwrap_or(u32::MAX)
pubkey_to_index == st_index

\* Mutant: the timer branch of the select is polled before the pub/sub one.
select_branch_timer_first(shutdown_ready, epoch_ready, event_ready, timeout_ready) ==
  IF shutdown_ready THEN "shutdown"
  ELSE IF epoch_ready THEN "epoch_changed"
  ELSE IF timeout_ready THEN "timeout"
  ELSE IF event_ready THEN "event"
  ELSE "pending"

\* tokio::select! { biased; .. }: the branches are polled in the order they
\* are written and the first that is ready is taken.
select_branch(shutdown_ready, epoch_ready, event_ready, timeout_ready) ==
  IF shutdown_ready THEN "shutdown"
  ELSE IF epoch_ready THEN "epoch_changed"
  ELSE IF event_ready THEN "event"
  ELSE IF timeout_ready THEN "timeout"
  ELSE "pending"

\* Mutant: the worker leaves the refresh to the epoch-changed notification.
worker_refreshes_never(res, epoch_changed) == FALSE

\* match res { Ok(epoch_changed) => if epoch_changed { refresh .. } } in the
\* worker's try_execute.
worker_refreshes(res, epoch_changed) == res = "Ok" /\ epoch_changed

\* Mutant: a request is answered whether or not the parcel is stored.
get_parcel_message_digest_always(P, M, digest) == TRUE

\* get_parcel(digest).and_then(|p| p.message_digest).is_some(); M: the digests
\* stored with Some(message_digest).
get_parcel_message_digest(P, M, digest) == digest \in P /\ digest \in M

\* Mutant: a node on the committee calls try_execute for a parcel as well.
parcel_calls_try_execute_always(is_on_committee) == TRUE

\* if !*on_committee { try_execute(parcel_digest, ..) } at the end of
\* handle_parcel.
parcel_calls_try_execute(is_on_committee) == ~is_on_committee

\* ------------------------------------------------------------- outputs
\* What a step called: on the event (mark_invalid_sender, propagate), on the
\* transaction store (store command, TryExecute), on pub/sub (request,
\* repropagate), and what try_execute answered.
Quiet ==
  [kind |-> "none", marked |-> FALSE, propagated |-> FALSE, store |-> "none",
   retained |-> FALSE, req_timer |-> NoDigest, try |-> NoDigest,
   threshold |-> 0, res |-> "none", missing |-> NoDigest, request |-> NoDigest,
   repropagated |-> FALSE, submitted |-> <<>>,
   \* the timeout MissingParcel carried and the duration of the timer spawned
   timeout |-> 0, timer_wait |-> 0,
   \* reconfigure_notify.notify_waiters() was called
   reconfigured |-> FALSE,
   \* the filter given to repropagate
   exclude |-> {},
   \* the blocks run by the executor, and whether a parcel was sent on
   \* tx_narwhal_batches
   blocks |-> <<>>, emitted |-> FALSE]

NoMsg == [kind |-> "none", originator |-> 0, digest |-> NoDigest, epoch |-> 0,
          node_index |-> 0]

\* No consensus output is waiting; the application has executed nothing.
NoOutput == [certs |-> <<>>, executed |-> {}]

\* The node at startup, before any consensus output.
Start ==
  /\ epoch = FirstEpoch
  /\ st_committee = GenesisCommittee
  /\ st_index \in OurIndexChoices
  /\ head = GenesisHead
  /\ parcels = {}
  /\ attestations = [d \in Digests |-> {}]
  /\ pending_parcels = {}
  /\ pending_attestations = {}
  /\ message_digests = {}
  /\ pending_digests = {}
  /\ executed_digests = {}
  /\ executed_log = <<>>
  /\ parcel_timeout_data = [stamped |-> FALSE,
                            estimated_tbe |-> InitialEstimatedTbe,
                            deviation_tbe |-> InitialDeviationTbe]
  /\ committee = st_committee
  /\ quorom_threshold = quorum_of(committee)
  /\ our_index = st_index
  /\ on_committee = (our_index \in committee)
  /\ pending_timeouts = {}
  /\ pending_requests = {}
  /\ timers = {}
  /\ timeout_rx = <<>>
  /\ epoch_changed_sub = 0
  /\ pc = "select"
  /\ msg = NoMsg
  /\ events = 0
  /\ shutdown = FALSE
  /\ inbox = <<>>
  /\ out = Quiet

\* What the last step of the controller did: the call, the level of the
\* line shutdown() logged and whether it printed the pending backtraces.
NoCtlOut == [call |-> "none", level |-> "none", dumped |-> FALSE]

\* ShutdownController::new(capture_backtrace); shutdown() not called yet.
ControllerNew(capture) ==
  /\ capture_backtrace = capture
  /\ is_shutdown = FALSE
  /\ pending_futures = 0
  /\ sd_pc = "idle"
  /\ sd_i = 0
  /\ sd_slept = 0
  /\ sd_out = NoCtlOut

\* ------------------------------------- application state: reward emission
\* HpUfixed: a fixed-point number with HpDecimals decimals, held as the
\* whole number of units of its last decimal.
HpUnit == 10 ^ HpDecimals
\* HpUfixed::from(n) of a whole number n.
hp_from(n) == n * HpUnit
\* a * b, truncated to the last decimal (the larger factor is split into
\* its whole and fractional parts, which keeps the products small).
hp_mul(a, b) ==
  LET hi == IF a >= b THEN a ELSE b
      lo == IF a >= b THEN b ELSE a IN
  (hi \div HpUnit) * lo + ((hi % HpUnit) * lo) \div HpUnit
\* a / b, truncated to the last decimal, for a whole number b (the divisors
\* are 100 and epochs_per_year): floor(a * unit / (n * unit)) = floor(a / n).
hp_div(a, b) == a \div (b \div HpUnit)

\* The genesis parameters of the test of the supply, with the supply scaled
\* down.
TestSupplyParams ==
  [epochs_per_year |-> 3, max_inflation |-> 10, node_share |-> 80,
   protocol_share |-> 10, service_builder_share |-> 10, supply_at_genesis |-> 1000]
\* The genesis parameters the supply is followed under: the shares sum to 100.
SupplyParams ==
  {[epochs_per_year |-> y, max_inflation |-> i, node_share |-> s[1],
    protocol_share |-> s[2], service_builder_share |-> s[3],
    supply_at_genesis |-> g] :
     y \in 1..3, i \in {0, 7, 10}, s \in {<<80, 10, 10>>, <<50, 25, 25>>, <<100, 0, 0>>},
     g \in {1000, 999}}

\* A percentage as a fraction.
percentage(p) == hp_div(hp_from(p), hp_from(100))

\* The emissions of one epoch.
calculate_emissions(G, year_start) ==
  hp_div(hp_mul(percentage(G.max_inflation), year_start), hp_from(G.epochs_per_year))

\* Mutant: the supply grows by the emissions of the epoch.
minted_is_emissions(G, year_start) == calculate_emissions(G, year_start)

\* What an epoch change mints when rewards are due in every pool: the node
\* pool, the protocol pool and the service builder pool.
minted(G, year_start) ==
  LET emissions == calculate_emissions(G, year_start) IN
  hp_mul(emissions, percentage(G.node_share))
    + hp_mul(emissions, percentage(G.protocol_share))
    + hp_mul(emissions, percentage(G.service_builder_share))

\* The epoch e that ends is the last of its year.
is_last_epoch_of_year(G, e) == (e + 1) % G.epochs_per_year = 0

\* The supply metadata after the rewards of the epoch e that ends are
\* distributed.
distribute_rewards(G, e, supply, year_start) ==
  LET total == supply + minted(G, year_start) IN
  [total_supply |-> total,
   supply_year_start |-> IF is_last_epoch_of_year(G, e) THEN total ELSE year_start]

\* The supply metadata after genesis.
SupplyGenesis(G) ==
  /\ genesis_params = G
  /\ total_supply = hp_from(G.supply_at_genesis)
  /\ supply_year_start = hp_from(G.supply_at_genesis)

\* ------------------------------------------------------------- signer
\* base_timestamp: None.
NoTimestamp == 0 - 1
\* The times the clock may step by.
ClockSteps == {TIMEOUT \div 2, TIMEOUT}
\* The transactions sign_new_tx is called for, numbered in the order of the
\* calls.
TxIds == 1..MaxSigned

\* SignerState, as the operators below read and write it.
SignerState ==
  [base_nonce |-> base_nonce, next_nonce |-> next_nonce,
   next_secondary_nonce |-> next_secondary_nonce,
   base_timestamp |-> base_timestamp,
   pending_transactions |-> pending_transactions]

\* The payload of a pending transaction, as the mempool and the application
\* see it.
PayloadOfTx(tx) ==
  [id |-> tx.id, nonce |-> tx.nonce, secondary_nonce |-> tx.secondary_nonce]

\* SignerState::init_state
init_state(nonce, secondary_nonce) ==
  [base_nonce |-> nonce, next_nonce |-> nonce + 1,
   next_secondary_nonce |-> secondary_nonce + 1,
   base_timestamp |-> NoTimestamp, pending_transactions |-> <<>>]

\* SignerState::sign_new_tx for the transaction id at time t.
sign_new_tx(S, id, t) ==
  LET tx == [id |-> id, nonce |-> S.next_nonce,
             secondary_nonce |-> S.next_secondary_nonce,
             timestamp |-> t, tries |-> 1] IN
  [S EXCEPT !.next_nonce = @ + 1,
            !.next_secondary_nonce = @ + 1,
            !.pending_transactions = Append(@, tx),
            !.base_timestamp = IF @ = NoTimestamp THEN t ELSE @]

\* The while loop of sync_with_application: pop_front while the front's
\* nonce is at most application_nonce.
RECURSIVE pop_ordered(_, _)
pop_ordered(txs, application_nonce) ==
  IF txs # <<>> /\ Head(txs).nonce <= application_nonce
    THEN pop_ordered(Tail(txs), application_nonce)
    ELSE txs

\* Mutant: a transaction is kept while tries is at most MAX_RETRIES.
may_retry_at_max(tries) == tries <= MAX_RETRIES

\* tx.tries < MAX_RETRIES
may_retry(tries) == tries < MAX_RETRIES

\* pending_transactions.retain_mut(..) at time t over the transactions txs
\* still to visit, with those kept so far; reverts: the transactions
\* simulate_txn reverts.
RECURSIVE retain_mut(_, _, _, _, _)
retain_mut(S, txs, kept, reverts, t) ==
  IF txs = <<>> THEN [S EXCEPT !.pending_transactions = kept]
  ELSE LET tx == Head(txs) IN
       IF tx.id \in reverts THEN retain_mut(S, Tail(txs), kept, reverts, t)
       ELSE IF may_retry(tx.tries)
         THEN LET renumber == tx.nonce # S.next_nonce
                  tx2 == [tx EXCEPT
                            !.nonce = S.next_nonce,
                            !.secondary_nonce =
                               IF renumber THEN S.next_secondary_nonce ELSE @,
                            !.timestamp = t]
                  S2 == [S EXCEPT
                           !.base_timestamp = IF @ = NoTimestamp THEN t ELSE @,
                           !.next_nonce = @ + 1,
                           !.next_secondary_nonce = @ + 1] IN
              retain_mut(S2, Tail(txs), Append(kept, tx2), reverts, t)
         ELSE retain_mut(S, Tail(txs), kept, reverts, t)

\* The loop that hands the retained transactions to the mempool; fails: the
\* transactions whose mempool_socket.run returns an error.
run_all(txs, fails) ==
  [i \in 1..Len(txs) |->
     IF txs[i].id \in fails THEN txs[i] ELSE [txs[i] EXCEPT !.tries = @ + 1]]

\* base_timestamp.elapsed().unwrap() >= TIMEOUT
timed_out(bt, t) == t - bt >= TIMEOUT

\* SignerState::sync_with_application at time t.  The answer holds the new
\* state, whether the buffer was resent, and the payloads the mempool took.
sync_with_application(S, application_nonce, secondary_nonce, reverts, fails, t) ==
  LET S1 == [S EXCEPT
               !.base_nonce = application_nonce,
               !.next_secondary_nonce =
                  IF @ >= secondary_nonce + 1 THEN @ ELSE secondary_nonce + 1,
               !.pending_transactions = pop_ordered(@, application_nonce)] IN
  IF S1.pending_transactions = <<>>
    THEN [S |-> [S1 EXCEPT !.base_timestamp = NoTimestamp], resent |-> FALSE,
          taken |-> {}]
  ELSE IF S1.base_timestamp # NoTimestamp /\ timed_out(S1.base_timestamp, t)
    THEN LET S2 == retain_mut([S1 EXCEPT !.base_timestamp = NoTimestamp,
                                         !.next_nonce = S1.base_nonce + 1],
                              S1.pending_transactions, <<>>, reverts, t)
             retained == S2.pending_transactions IN
         [S |-> [S2 EXCEPT !.pending_transactions = run_all(retained, fails)],
          resent |-> TRUE,
          taken |-> {PayloadOfTx(retained[i]) :
                       i \in {j \in 1..Len(retained) : retained[j].id \notin fails}}]
  ELSE [S |-> S1, resent |-> FALSE, taken |-> {}]

\* What the last step of the signer did: the call, the transactions it
\* handed to the mempool with success, those simulate_txn reverted, whether
\* the buffer was resent, and the state the call started from.
NoSignerOut ==
  [call |-> "none", taken |-> {}, reverts |-> {}, resent |-> FALSE,
   before |-> init_state(0, 0), at |-> 0]

\* The signer after Signer::start on a node whose nonces are 0, and the
\* mempool and the application's nonces for this node.
SignerStart ==
  /\ base_nonce = init_state(0, 0).base_nonce
  /\ next_nonce = init_state(0, 0).next_nonce
  /\ next_secondary_nonce = init_state(0, 0).next_secondary_nonce
  /\ base_timestamp = init_state(0, 0).base_timestamp
  /\ pending_transactions = init_state(0, 0).pending_transactions
  /\ now = 0
  /\ signed = 0
  /\ mempool = {}
  /\ handed = [id \in TxIds |-> 0]
  /\ app_nonce = 0
  /\ app_secondary_nonce = 0
  /\ signer_out = NoSignerOut

\* ------------------------------------------- application state: genesis
\* The first epoch.
GenesisEpoch == 0
AppNodes == 0..MaxAppNode
AppEpochs == GenesisEpoch..(MaxAppEpoch + 1)
\* genesis.min_stake.
MIN_STAKE == 1000
\* Sizes of the genesis committee; its members are the nodes 0..size-1, the
\* other nodes are registered without being members.
GenesisCommitteeSizes == {2, 3, 4}
\* The largest committee.
COMMITTEE_SIZE == 4

NodeInfoOf(staked, locked, participation) ==
  [staked |-> staked, locked |-> locked, participation |-> participation]
\* A node with the minimum stake, unlocked, that participates.
StakedNode == NodeInfoOf(MIN_STAKE, 0, "True")
\* What the last member of the genesis committee may be: staked, with only
\* locked stake, with half the minimum stake (it unstaked), opted out.
GenesisMembers ==
  {StakedNode, NodeInfoOf(0, MIN_STAKE, "True"),
   NodeInfoOf(MIN_STAKE \div 2, 0, "True"), NodeInfoOf(MIN_STAKE, 0, "OptedOut")}
\* What the last node, not on the genesis committee, may be: staked and
\* participating, with half the minimum stake, opted in, not participating,
\* opted in with half the minimum stake.
GenesisOthers ==
  {StakedNode, NodeInfoOf(MIN_STAKE \div 2, 0, "True"),
   NodeInfoOf(MIN_STAKE, 0, "OptedIn"), NodeInfoOf(MIN_STAKE, 0, "False"),
   NodeInfoOf(MIN_STAKE \div 2, 0, "OptedIn")}

NoCommittee == [members |-> {}, ready_to_change |-> <<>>]
NoPhase == [phase |-> "None", epoch |-> GenesisEpoch, round |-> 0]
\* A receipt: the response, the block's change_epoch flag, and the
\* transaction it answers (method, sender, the epoch named by ChangeEpoch).
NoReceipt ==
  [response |-> "none", error |-> "none", change_epoch |-> FALSE,
   method |-> "none", sender |-> 0, epoch |-> GenesisEpoch]

\* The state after genesis with a committee of `size` nodes, where the last
\* member has the node info `member` and the last node `other`.
Genesis(size, member, other) ==
  /\ state_epoch = GenesisEpoch
  /\ committee_info =
       [e \in AppEpochs |->
          IF e = GenesisEpoch
            THEN [members |-> 0..(size - 1), ready_to_change |-> <<>>]
            ELSE NoCommittee]
  /\ beacon_phase = NoPhase
  /\ node_info = [n \in AppNodes |->
                    IF n = size - 1 THEN member
                    ELSE IF n = MaxAppNode THEN other ELSE StakedNode]
  /\ receipt = NoReceipt
  /\ SupplyGenesis(TestSupplyParams)
  /\ SignerStart

\* ShutdownController::default(), and the genesis of the tests: a committee
\* of four among nodes that are all staked and participating.
OtherStart == ControllerNew(FALSE) /\ Genesis(COMMITTEE_SIZE, StakedNode, StakedNode)

Init == Start /\ co = NoOutput /\ OtherStart

\* Writes an ExecState back to the variables.
Commit(E) ==
  /\ head' = E.head
  /\ epoch' = E.epoch
  /\ st_committee' = E.st_committee
  /\ pending_digests' = E.pending
  /\ executed_digests' = E.executed
  /\ executed_log' = E.log
  /\ epoch_changed_sub' = E.notes
  /\ parcel_timeout_data' = E.tbe

\* The values timestamp.elapsed() may report to the call that starts now.
Elapsed == IF parcel_timeout_data.stamped THEN SampleTbe ELSE {0}

\* -------------------------------------------- direct calls on Execution
ExecStoreParcel(d, has_message_digest) ==
  /\ events < MaxCalls
  /\ events' = events + 1
  /\ parcels' = store_parcel(parcels, ParcelOf(d, epoch))
  /\ message_digests' =
       store_message_digest(message_digests, ParcelOf(d, epoch), has_message_digest)
  /\ out' = [Quiet EXCEPT !.kind = "store_parcel"]
  /\ UNCHANGED <<app_vars, attestations, pending_parcels, pending_attestations,
                 exec_vars, committee, quorom_threshold, our_index, on_committee,
                 pending_timeouts, pending_requests, timers, timeout_rx,
                 epoch_changed_sub, pc, msg, loop_vars, co, other_vars>>

ExecStoreAttestation(d, n) ==
  /\ events < MaxCalls
  /\ events' = events + 1
  /\ attestations' = store_attestation(attestations, d, n)
  /\ out' = [Quiet EXCEPT !.kind = "store_attestation"]
  /\ UNCHANGED <<app_vars, parcels, pending_parcels, pending_attestations,
                 message_digests,
                 exec_vars, committee, quorom_threshold, our_index, on_committee,
                 pending_timeouts, pending_requests, timers, timeout_rx,
                 epoch_changed_sub, pc, msg, loop_vars, co, other_vars>>

ExecTryExecute(d, t) ==
  /\ events < MaxCalls
  /\ events' = events + 1
  /\ \E order \in Orders(pending_digests) :
       \E chg \in SUBSET WillSubmit(parcels, attestations, d, t, order) :
         \E newc \in NextCommittees, elapsed \in Elapsed :
           \E r \in {try_execute([ExecState EXCEPT !.elapsed = elapsed], parcels,
                                  attestations, d, t, order, chg, newc)} :
           /\ Commit(r.E)
           /\ out' = [Quiet EXCEPT !.kind = "try_execute", !.try = d,
                                   !.threshold = t, !.res = r.res,
                                   !.missing = r.digest,
                                   !.submitted = SubSeq(r.E.log, Len(executed_log) + 1,
                                                        Len(r.E.log)),
                                   !.timeout = r.timeout,
                                   !.blocks = r.E.blocks]
  /\ UNCHANGED <<st_index, store_vars, committee, quorom_threshold, our_index,
                 on_committee, pending_timeouts, pending_requests, timers,
                 timeout_rx, pc, msg, loop_vars, co, other_vars>>

NextExec ==
  \/ \E d \in Digests, has_message_digest \in BOOLEAN :
       ExecStoreParcel(d, has_message_digest)
  \/ \E d \in Digests, n \in Nodes : ExecStoreAttestation(d, n)
  \/ \E d \in Digests, t \in 1..MaxThreshold : ExecTryExecute(d, t)

InitExec == Init /\ st_index = NoNodeIndex

SpecExec == InitExec /\ [][NextExec]_vars

\* ------------------------------------------- message_receiver_worker
\* The tail of handle_parcel and handle_attestation on an edge node: the
\* worker's try_execute.  P, A: the store after the event's store command;
\* T: <<pending_timeouts, timers>> so far; o: the outputs so far.  r, the
\* answer of the call, is bound as the element of a singleton so that it is
\* computed once.
WorkerTryExecute(digest, P, A, T, o) ==
  \E order \in Orders(pending_digests) :
    \E chg \in SUBSET WillSubmit(P, A, digest, quorom_threshold, order) :
      \E newc \in NextCommittees, elapsed \in Elapsed :
        \E r \in {try_execute([ExecState EXCEPT !.elapsed = elapsed], P, A, digest,
                             quorom_threshold, order, chg, newc)} :
        LET T2 == handle_not_executed(r, T)
            refresh == worker_refreshes(r.res, r.changed) IN
        /\ Commit(r.E)
        /\ committee' = IF refresh THEN r.E.st_committee ELSE committee
        /\ quorom_threshold' =
             IF refresh THEN quorum_of(r.E.st_committee) ELSE quorom_threshold
        /\ our_index' = IF refresh THEN pubkey_to_index ELSE our_index
        /\ on_committee' =
             IF refresh THEN pubkey_to_index \in r.E.st_committee ELSE on_committee
        /\ pending_timeouts' = T2[1]
        /\ timers' = T2[2]
        /\ out' = [o EXCEPT !.try = digest, !.threshold = quorom_threshold,
                            !.res = r.res, !.missing = r.digest,
                            !.submitted = SubSeq(r.E.log, Len(executed_log) + 1,
                                                 Len(r.E.log)),
                            !.timeout = r.timeout,
                            !.timer_wait = IF T2 # T THEN timer_duration(r) ELSE 0,
                            !.reconfigured = refresh,
                            !.blocks = r.E.blocks]

\* A handler that ends without calling the worker's try_execute.
WorkerNoTryExecute(T, o) ==
  /\ pending_timeouts' = T[1]
  /\ timers' = T[2]
  /\ out' = o
  /\ UNCHANGED <<epoch, st_committee, head, exec_vars, committee,
                 quorom_threshold, our_index, on_committee, epoch_changed_sub>>

\* Some(msg) = pub_sub.recv_event(): the select takes this branch only when
\* no epoch-changed notification is ready (biased).
RecvEvent(m) ==
  /\ pc = "select"
  /\ inbox = <<>>
  /\ select_branch(shutdown, epoch_changed_sub > 0, TRUE, timeout_rx # <<>>) = "event"
  /\ events < MaxEvents
  /\ events' = events + 1
  /\ pc' = "handle"
  /\ msg' = m
  /\ out' = Quiet
  /\ UNCHANGED <<app_vars, store_vars, exec_vars, committee, quorom_threshold,
                 our_index, on_committee, pending_timeouts, pending_requests,
                 timers, timeout_rx, epoch_changed_sub, loop_vars, co, other_vars>>

HandleParcel ==
  /\ pc = "handle"
  /\ msg.kind = "parcel"
  /\ pc' = "done"
  /\ UNCHANGED <<st_index, msg, events, timeout_rx, attestations,
                 pending_attestations, loop_vars, co, other_vars>>
  /\ LET parcel == ParcelOf(msg.digest, msg.epoch)
         originator == msg.originator
         is_committee == originator \in committee
         o0 == [Quiet EXCEPT !.kind = "parcel"] IN
     IF ~is_valid_message(is_committee, parcel.epoch, epoch)
       THEN /\ UNCHANGED <<parcels, pending_parcels, message_digests,
                           pending_requests>>
            /\ WorkerNoTryExecute(<<pending_timeouts, timers>>,
                                  [o0 EXCEPT !.marked = TRUE])
       ELSE
         LET parcel_digest == to_digest(parcel)
             from_next_epoch == parcel.epoch = epoch + 1
             last_executed == parcel.last_executed
             \* pending_requests.remove(&parcel_digest).is_none()
             first_remove_none == parcel_digest \notin pending_requests
             requests1 == pending_requests \ {parcel_digest}
             P == IF from_next_epoch THEN parcels ELSE store_parcel(parcels, parcel)
             \* pending_requests.remove(&parcel_digest).is_some()
             second_remove_some == parcel_digest \in requests1
             requests2 == requests1 \ {parcel_digest}
             T == IF second_remove_some
                    THEN set_parcel_timer(last_executed, <<pending_timeouts, timers>>)
                    ELSE <<pending_timeouts, timers>>
             o == [o0 EXCEPT !.propagated =
                               parcel_propagate(first_remove_none, from_next_epoch),
                             !.store = parcel_store_cmd(from_next_epoch),
                             !.retained = from_next_epoch,
                             !.req_timer = IF second_remove_some THEN last_executed
                                                                 ELSE NoDigest] IN
         /\ parcels' = P
         /\ message_digests' =
              IF from_next_epoch THEN message_digests
              ELSE store_message_digest(message_digests, parcel, TRUE)
         /\ pending_parcels' =
              IF from_next_epoch
                THEN pending_parcels \cup
                       {[digest |-> parcel_digest, originator |-> originator]}
                ELSE pending_parcels
         /\ pending_requests' = requests2
         /\ IF parcel_calls_try_execute(on_committee)
              THEN WorkerTryExecute(parcel_digest, P, attestations, T, o)
              ELSE WorkerNoTryExecute(T, o)

HandleAttestation ==
  /\ pc = "handle"
  /\ msg.kind = "attestation"
  /\ pc' = "done"
  /\ UNCHANGED <<st_index, msg, events, timeout_rx, parcels, pending_parcels,
                 message_digests, pending_requests, loop_vars, co, other_vars>>
  /\ LET originator == msg.originator
         is_committee == originator \in committee
         o0 == [Quiet EXCEPT !.kind = "attestation"] IN
     IF attestation_rejected(originator, msg.node_index, is_committee, msg.epoch,
                             epoch)
       THEN /\ UNCHANGED <<attestations, pending_attestations>>
            /\ WorkerNoTryExecute(<<pending_timeouts, timers>>,
                                  [o0 EXCEPT !.marked = TRUE])
       ELSE
         LET from_next_epoch == msg.epoch = epoch + 1
             o1 == [o0 EXCEPT !.propagated = ~from_next_epoch] IN
         IF ~on_committee
           THEN LET cmd == attestation_store_cmd(from_next_epoch)
                    A == IF cmd = "StoreAttestation"
                           THEN store_attestation(attestations, msg.digest,
                                                  msg.node_index)
                           ELSE attestations
                    o == [o1 EXCEPT !.store = cmd,
                                    !.retained = (cmd = "StorePendingAttestation")] IN
                /\ attestations' = A
                /\ pending_attestations' =
                     IF cmd = "StorePendingAttestation"
                       THEN pending_attestations \cup
                              {[digest |-> msg.digest, node_index |-> msg.node_index]}
                       ELSE pending_attestations
                /\ WorkerTryExecute(msg.digest, parcels, A,
                                    <<pending_timeouts, timers>>, o)
           ELSE /\ UNCHANGED <<attestations, pending_attestations>>
                /\ WorkerNoTryExecute(<<pending_timeouts, timers>>, o1)

\* PubSubMsg::RequestTransactions(digest)
HandleRequest ==
  /\ pc = "handle"
  /\ msg.kind = "request"
  /\ pc' = "done"
  /\ LET parcel_msg_digest ==
           get_parcel_message_digest(parcels, message_digests, msg.digest) IN
     out' = [Quiet EXCEPT !.kind = "request",
                          !.repropagated = parcel_msg_digest,
                          !.exclude = IF parcel_msg_digest THEN {msg.originator}
                                                           ELSE {}]
  /\ UNCHANGED <<app_vars, store_vars, exec_vars, committee, quorom_threshold,
                 our_index, on_committee, pending_timeouts, pending_requests,
                 timers, timeout_rx, epoch_changed_sub, msg, events, loop_vars, co, other_vars>>

\* handle_pubsub_event has returned: the loop goes back to the select.
HandlerReturns ==
  /\ pc = "done"
  /\ pc' = "select"
  /\ msg' = NoMsg
  /\ out' = Quiet
  /\ UNCHANGED <<app_vars, store_vars, exec_vars, committee, quorom_threshold,
                 our_index, on_committee, pending_timeouts, pending_requests,
                 timers, timeout_rx, epoch_changed_sub, events, loop_vars, co, other_vars>>

\* A parcel timer's sleep ends and it sends its digest on timeout_tx; the
\* send of a bounded channel waits while the channel is full.
TimerFires(d) ==
  /\ d \in timers
  /\ Len(timeout_rx) < TimeoutChannelCapacity
  /\ timers' = timers \ {d}
  /\ timeout_rx' = Append(timeout_rx, d)
  /\ UNCHANGED <<app_vars, store_vars, exec_vars, committee, quorom_threshold,
                 our_index, on_committee, pending_timeouts, pending_requests,
                 epoch_changed_sub, pc, msg, events, loop_vars, co, other_vars, out>>

\* digest = timeout_rx.recv()
RecvTimeout ==
  /\ pc = "select"
  /\ select_branch(shutdown, epoch_changed_sub > 0, inbox # <<>>, timeout_rx # <<>>)
       = "timeout"
  /\ LET digest == Head(timeout_rx)
         contains_parcel == get_parcel_present(parcels, digest) IN
     /\ timeout_rx' = Tail(timeout_rx)
     /\ pending_timeouts' = pending_timeouts \ {digest}
     /\ IF timeout_requests(contains_parcel)
          THEN /\ pending_requests' \in cache_insert(pending_requests, digest)
               /\ out' = [Quiet EXCEPT !.kind = "timeout", !.request = digest]
          ELSE /\ pending_requests' = pending_requests
               /\ out' = [Quiet EXCEPT !.kind = "timeout"]
  /\ UNCHANGED <<app_vars, store_vars, exec_vars, committee, quorom_threshold,
                 our_index, on_committee, timers, epoch_changed_sub, pc, msg,
                 events, loop_vars, co, other_vars>>

\* Some(_) = epoch_changed_sub.recv()
RecvEpochChanged ==
  /\ pc = "select"
  /\ select_branch(shutdown, epoch_changed_sub > 0, inbox # <<>>, timeout_rx # <<>>)
       = "epoch_changed"
  /\ epoch_changed_sub' = epoch_changed_sub - 1
  /\ committee' = IF on_committee THEN st_committee ELSE committee
  /\ quorom_threshold' =
       IF on_committee THEN quorum_of(st_committee) ELSE quorom_threshold
  /\ our_index' = IF on_committee THEN pubkey_to_index ELSE our_index
  /\ on_committee' =
       IF on_committee THEN pubkey_to_index \in st_committee ELSE on_committee
  /\ out' = [Quiet EXCEPT !.kind = "epoch_changed"]
  /\ UNCHANGED <<app_vars, store_vars, exec_vars, pending_timeouts,
                 pending_requests, timers, timeout_rx, pc, msg, events,
                 loop_vars, co, other_vars>>

\* Execution::handle_consensus_output on a committee node: the ordering layer
\* delivers one certificate of the current epoch with one batch; the parcel
\* built from it points at the head and is executed under its own digest.
HandleConsensusOutput(transactions) ==
  /\ st_index \in st_committee
  /\ LET certs == <<[epoch |-> epoch, batches |-> <<PayloadOf(transactions)>>]>> IN
     \E changes_epoch \in BOOLEAN :
       \E newc \in NextCommittees :
         \E r \in {handle_consensus_output(ExecState, certs, changes_epoch, newc)} :
         /\ r.digest \in Digests
         /\ Commit(r.E)
         /\ out' = [Quiet EXCEPT !.kind = "consensus_output",
                                 !.submitted = <<r.digest>>,
                                 !.blocks = r.E.blocks,
                                 !.emitted = r.emitted,
                                 !.reconfigured = r.changed]
  /\ UNCHANGED <<st_index, store_vars, committee, quorom_threshold, our_index,
                 on_committee, pending_timeouts, pending_requests, timers,
                 timeout_rx, pc, msg, events, loop_vars, co, other_vars>>

ParcelEvents ==
  {[kind |-> "parcel", originator |-> o, digest |-> d, epoch |-> e, node_index |-> 0] :
     o \in Nodes, d \in Digests, e \in MsgEpochs}
AttestationEvents ==
  {[kind |-> "attestation", originator |-> o, digest |-> d, epoch |-> e,
    node_index |-> n] : o \in Nodes, d \in Digests, e \in MsgEpochs, n \in Nodes}
RequestEvents ==
  {[kind |-> "request", originator |-> o, digest |-> d, epoch |-> 0, node_index |-> 0] :
     o \in Nodes, d \in Digests}

Next ==
  \/ \E m \in ParcelEvents \cup AttestationEvents \cup RequestEvents : RecvEvent(m)
  \/ HandleParcel
  \/ HandleAttestation
  \/ HandleRequest
  \/ HandlerReturns
  \/ \E d \in Digests \cup {GenesisHead} : TimerFires(d)
  \/ RecvTimeout
  \/ RecvEpochChanged
  \/ \E t \in 0..(NumBatches - 1) : HandleConsensusOutput(t)

Spec == Init /\ [][Next]_vars

\* ------------------------------------------ an edge node and its timers
\* The worker of a node that is not in the state's node table, receiving
\* parcels and attestations of the first epoch from the committee members.
TimerEvents ==
  {[kind |-> "parcel", originator |-> 0, digest |-> d, epoch |-> FirstEpoch,
    node_index |-> 0] : d \in Digests}
  \cup {[kind |-> "attestation", originator |-> n, digest |-> d,
         epoch |-> FirstEpoch, node_index |-> n] :
          n \in GenesisCommittee, d \in Digests}

\* Some(msg) = pub_sub.recv_event(), up to MaxTimerEvents times.
EdgeRecvEvent(m) ==
  /\ pc = "select"
  /\ inbox = <<>>
  /\ select_branch(shutdown, epoch_changed_sub > 0, TRUE, timeout_rx # <<>>) = "event"
  /\ events < MaxTimerEvents
  /\ events' = events + 1
  /\ pc' = "handle"
  /\ msg' = m
  /\ out' = Quiet
  /\ UNCHANGED <<app_vars, store_vars, exec_vars, committee, quorom_threshold,
                 our_index, on_committee, pending_timeouts, pending_requests,
                 timers, timeout_rx, epoch_changed_sub, loop_vars, co, other_vars>>

InitTimers == Init /\ st_index = NoNodeIndex

NextTimers ==
  \/ \E m \in TimerEvents : EdgeRecvEvent(m)
  \/ HandleParcel
  \/ HandleAttestation
  \/ HandlerReturns
  \/ \E d \in Digests \cup {GenesisHead} : TimerFires(d)
  \/ RecvTimeout
  \/ RecvEpochChanged

SpecTimers == InitTimers /\ [][NextTimers]_vars

\* ------------------------------------- an edge node at the epoch rollover
\* The worker of a node that is not in the state's node table.  It receives
\* the first parcel of the chain and its attestations from the committee
\* members, and a parcel and attestations of the next epoch, built on that
\* parcel, from node 0 (which may leave the committee) and node 2 (which
\* joins it).
RolloverEvents ==
  {[kind |-> "parcel", originator |-> 0, digest |-> 1, epoch |-> FirstEpoch,
    node_index |-> 0]}
  \cup {[kind |-> "attestation", originator |-> n, digest |-> 1,
         epoch |-> FirstEpoch, node_index |-> n] : n \in GenesisCommittee}
  \cup {[kind |-> k, originator |-> n, digest |-> MaxDigest,
         epoch |-> FirstEpoch + 1, node_index |-> n] :
          k \in {"parcel", "attestation"}, n \in {0, MaxNode}}

\* Some(msg) = pub_sub.recv_event(), up to MaxRolloverEvents times.
RolloverRecvEvent(m) ==
  /\ pc = "select"
  /\ inbox = <<>>
  /\ select_branch(shutdown, epoch_changed_sub > 0, TRUE, timeout_rx # <<>>) = "event"
  /\ events < MaxRolloverEvents
  /\ events' = events + 1
  /\ pc' = "handle"
  /\ msg' = m
  /\ out' = Quiet
  /\ UNCHANGED <<app_vars, store_vars, exec_vars, committee, quorom_threshold,
                 our_index, on_committee, pending_timeouts, pending_requests,
                 timers, timeout_rx, epoch_changed_sub, loop_vars, co, other_vars>>

InitRollover == Init /\ st_index = NoNodeIndex

NextRollover ==
  \/ \E m \in RolloverEvents : RolloverRecvEvent(m)
  \/ HandleParcel
  \/ HandleAttestation
  \/ HandlerReturns
  \/ \E d \in Digests \cup {GenesisHead} : TimerFires(d)
  \/ RecvTimeout
  \/ RecvEpochChanged

SpecRollover == InitRollover /\ [][NextRollover]_vars

\* --------------------------------------------- the select loop, stopped
\* The worker of an edge node with the events queued by pub/sub and the
\* shutdown signal.
SelectEvents ==
  {[kind |-> "parcel", originator |-> 0, digest |-> 1, epoch |-> FirstEpoch,
    node_index |-> 0],
   [kind |-> "request", originator |-> 0, digest |-> 1, epoch |-> 0,
    node_index |-> 0]}
  \cup {[kind |-> "attestation", originator |-> n, digest |-> d,
         epoch |-> FirstEpoch, node_index |-> n] :
          n \in GenesisCommittee, d \in 1..2}

\* Pub/sub has an event ready for the worker.
Arrive(m) ==
  /\ events < MaxArrivals
  /\ Len(inbox) < MaxInbox
  /\ events' = events + 1
  /\ inbox' = Append(inbox, m)
  /\ UNCHANGED <<app_vars, store_vars, exec_vars, committee, quorom_threshold,
                 our_index, on_committee, pending_timeouts, pending_requests,
                 timers, timeout_rx, epoch_changed_sub, pc, msg, shutdown, co, other_vars, out>>

\* EdgeConsensus::shutdown: tx_shutdown.notify_one().
Shutdown ==
  /\ ~shutdown
  /\ shutdown' = TRUE
  /\ UNCHANGED <<app_vars, store_vars, exec_vars, worker_vars, inbox, co, other_vars, out>>

\* _ = &mut shutdown_future => break
LoopExit ==
  /\ pc = "select"
  /\ select_branch(shutdown, epoch_changed_sub > 0, inbox # <<>>, timeout_rx # <<>>)
       = "shutdown"
  /\ pc' = "stopped"
  /\ out' = [Quiet EXCEPT !.kind = "shutdown"]
  /\ UNCHANGED <<app_vars, store_vars, exec_vars, committee, quorom_threshold,
                 our_index, on_committee, pending_timeouts, pending_requests,
                 timers, timeout_rx, epoch_changed_sub, msg, events, loop_vars, co, other_vars>>

\* Some(msg) = pub_sub.recv_event() on the events pub/sub holds.
TakeEvent ==
  /\ pc = "select"
  /\ select_branch(shutdown, epoch_changed_sub > 0, inbox # <<>>, timeout_rx # <<>>)
       = "event"
  /\ pc' = "handle"
  /\ msg' = Head(inbox)
  /\ inbox' = Tail(inbox)
  /\ out' = Quiet
  /\ UNCHANGED <<app_vars, store_vars, exec_vars, committee, quorom_threshold,
                 our_index, on_committee, pending_timeouts, pending_requests,
                 timers, timeout_rx, epoch_changed_sub, events, shutdown, co, other_vars>>

InitSelect == Init /\ st_index = NoNodeIndex

NextSelect ==
  \/ \E m \in SelectEvents : Arrive(m)
  \/ Shutdown
  \/ LoopExit
  \/ TakeEvent
  \/ HandleParcel
  \/ HandleAttestation
  \/ HandleRequest
  \/ HandlerReturns
  \/ \E d \in Digests \cup {GenesisHead} : TimerFires(d)
  \/ RecvTimeout
  \/ RecvEpochChanged

SpecSelect == InitSelect /\ [][NextSelect]_vars

\* --------------------------------------- consensus outputs, one by one
\* The outputs the ordering layer may deliver: certificates of the epoch
\* before, the current and the next epoch, each with its batches, and the
\* transactions the application has executed already (a transaction that does
\* not deserialize has no hash to look up).
CertEpochs == (FirstEpoch - 1)..(FirstEpoch + 1)
SeqsUpTo(S, n) == UNION {[1..k -> S] : k \in 0..n}
ConsensusOutputs ==
  [certs : SeqsUpTo([epoch : CertEpochs,
                     batches : SeqsUpTo(SeqsUpTo(Txns, MaxTxnsPerBatch),
                                        MaxBatchesPerCert)],
                    MaxCerts),
   executed : SUBSET (Txns \ {BadTxn})]

\* handle_consensus_output(consensus_output) on the output co.
ExecHandleConsensusOutput ==
  /\ events < MaxOutputs
  /\ events' = events + 1
  /\ \E changes_epoch \in BOOLEAN :
       \E newc \in NextCommittees :
         \E r \in {handle_consensus_output(ExecState, co.certs, changes_epoch, newc)} :
         /\ Commit(r.E)
         /\ out' = [Quiet EXCEPT !.kind = "consensus_output",
                                 !.submitted = IF r.emitted THEN <<r.digest>> ELSE <<>>,
                                 !.blocks = r.E.blocks,
                                 !.emitted = r.emitted,
                                 !.reconfigured = r.changed]
  /\ UNCHANGED <<st_index, store_vars, committee, quorom_threshold, our_index,
                 on_committee, pending_timeouts, pending_requests, timers,
                 timeout_rx, pc, msg, loop_vars, co, other_vars>>

InitOutput == Start /\ st_index = 0 /\ co \in ConsensusOutputs /\ OtherStart

NextOutput == ExecHandleConsensusOutput

SpecOutput == InitOutput /\ [][NextOutput]_vars

\* ------------------------------------- the parcel timeout estimate alone
\* Times between executions the clock may report in SpecTbe: none at all,
\* and exactly the first estimate.
TbeSamples == {0, InitialEstimatedTbe}

\* update_estimated_tbe() with timestamp.elapsed() = Ok(sample_tbe).
UpdateEstimatedTbe(sample_tbe) ==
  /\ events < MaxTbeUpdates
  /\ events' = events + 1
  /\ parcel_timeout_data' = update_estimated_tbe(parcel_timeout_data, sample_tbe)
  /\ out' = [Quiet EXCEPT !.kind = "update_estimated_tbe"]
  /\ UNCHANGED <<app_vars, store_vars, pending_digests, executed_digests,
                 executed_log, committee, quorom_threshold, our_index,
                 on_committee, pending_timeouts, pending_requests, timers,
                 timeout_rx, epoch_changed_sub, pc, msg, loop_vars, co, other_vars>>

\* update_estimated_tbe() with timestamp.elapsed() = Err(_) (the system clock
\* went back): only last_executed_timestamp is set.
UpdateEstimatedTbeClockError ==
  /\ parcel_timeout_data.stamped
  /\ out' = [Quiet EXCEPT !.kind = "update_estimated_tbe", !.res = "clock_error"]
  /\ UNCHANGED <<app_vars, store_vars, exec_vars, worker_vars, loop_vars, co, other_vars>>

\* get_parcel_timeout().
GetParcelTimeout ==
  /\ out' = [Quiet EXCEPT !.kind = "get_parcel_timeout",
                          !.timeout = get_parcel_timeout(parcel_timeout_data)]
  /\ UNCHANGED <<app_vars, store_vars, exec_vars, worker_vars, loop_vars, co, other_vars>>

NextTbe ==
  \/ \E sample_tbe \in TbeSamples : UpdateEstimatedTbe(sample_tbe)
  \/ UpdateEstimatedTbeClockError
  \/ GetParcelTimeout

SpecTbe == Init /\ [][NextTbe]_vars

\* ------------------------------------------------- ShutdownController
\* CompletionFuture: resolved as soon as all of the futures waiting for the
\* shutdown have dropped.
completion_ready(pending) == pending = 0

\* shutdown(), after the sleep of iteration i: the level of the line logged.
sleep_log_level(i) == IF i = 0 THEN "trace" ELSE IF i = 1 THEN "warn" ELSE "error"

\* shutdown() without the `1 =>` arm: only iteration 0 continues.
reaches_backtraces_no_warn(i) == i >= 1

\* shutdown(), after the sleep of iteration i: iterations 0 and 1 `continue`,
\* the later ones go on to pending_backtraces().
reaches_backtraces(i) == i >= 2

\* pending_backtraces(): None unless the backtraces are captured.
pending_backtraces(capture) == IF capture THEN "Some" ELSE "None"

\* SharedState::trigger_shutdown: marks the system as shut down (and wakes
\* the waiting futures); a call after the first has no effect.
trigger_shutdown(triggered) == TRUE

\* A task creates a future waiting for the shutdown.
WaitForShutdown ==
  /\ pending_futures < MaxFutures
  /\ pending_futures' = pending_futures + 1
  /\ sd_out' = [NoCtlOut EXCEPT !.call = "wait_for_shutdown"]
  /\ UNCHANGED <<capture_backtrace, is_shutdown, sd_pc, sd_i, sd_slept>>
  /\ UNCHANGED <<app_vars, store_vars, exec_vars, worker_vars, loop_vars, co,
                 state_vars, ext_vars, out>>

\* A task drops its future.
DropFuture ==
  /\ pending_futures > 0
  /\ pending_futures' = pending_futures - 1
  /\ sd_out' = [NoCtlOut EXCEPT !.call = "drop"]
  /\ UNCHANGED <<capture_backtrace, is_shutdown, sd_pc, sd_i, sd_slept>>
  /\ UNCHANGED <<app_vars, store_vars, exec_vars, worker_vars, loop_vars, co,
                 state_vars, ext_vars, out>>

\* trigger_shutdown() called on the controller directly.
TriggerShutdown ==
  /\ is_shutdown' = trigger_shutdown(is_shutdown)
  /\ sd_out' = [NoCtlOut EXCEPT !.call = "trigger_shutdown"]
  /\ UNCHANGED <<capture_backtrace, pending_futures, sd_pc, sd_i, sd_slept>>
  /\ UNCHANGED <<app_vars, store_vars, exec_vars, worker_vars, loop_vars, co,
                 state_vars, ext_vars, out>>

\* shutdown() is called: self.trigger_shutdown(), then the loop starts with
\* i = 0 and waits in tokio::select!.
ShutdownCalled ==
  /\ sd_pc = "idle"
  /\ is_shutdown' = trigger_shutdown(is_shutdown)
  /\ sd_pc' = "select"
  /\ sd_i' = 0
  /\ sd_slept' = 0
  /\ sd_out' = [NoCtlOut EXCEPT !.call = "shutdown"]
  /\ UNCHANGED <<capture_backtrace, pending_futures>>
  /\ UNCHANGED <<app_vars, store_vars, exec_vars, worker_vars, loop_vars, co,
                 state_vars, ext_vars, out>>

\* select!, biased: wait_for_completion() is ready => return.
ShutdownReturns ==
  /\ sd_pc = "select"
  /\ completion_ready(pending_futures)
  /\ sd_pc' = "returned"
  /\ sd_out' = [NoCtlOut EXCEPT !.call = "return"]
  /\ UNCHANGED <<capture_backtrace, is_shutdown, pending_futures, sd_i, sd_slept>>
  /\ UNCHANGED <<app_vars, store_vars, exec_vars, worker_vars, loop_vars, co,
                 state_vars, ext_vars, out>>

\* select!: the sleep of 5 seconds ends before the completion; the line
\* for i is logged and, from i = 2 on, the pending backtraces are printed
\* if pending_backtraces() returns Some; then the next iteration starts.
ShutdownSleepEnds ==
  /\ sd_pc = "select"
  /\ ~completion_ready(pending_futures)
  /\ sd_i < MaxSleeps
  /\ sd_slept' = sd_slept + SHUTDOWN_SLEEP
  /\ sd_out' = [call |-> "sleep", level |-> sleep_log_level(sd_i),
                dumped |-> /\ reaches_backtraces(sd_i)
                           /\ pending_backtraces(capture_backtrace) = "Some"]
  /\ sd_i' = sd_i + 1
  /\ UNCHANGED <<capture_backtrace, is_shutdown, pending_futures, sd_pc>>
  /\ UNCHANGED <<app_vars, store_vars, exec_vars, worker_vars, loop_vars, co,
                 state_vars, ext_vars, out>>

NextShutdown ==
  \/ WaitForShutdown
  \/ DropFuture
  \/ TriggerShutdown
  \/ ShutdownCalled
  \/ ShutdownReturns
  \/ ShutdownSleepEnds

InitShutdown ==
  /\ Start
  /\ co = NoOutput
  /\ st_index = NoNodeIndex
  /\ \E capture \in BOOLEAN : ControllerNew(capture)
  /\ Genesis(COMMITTEE_SIZE, StakedNode, StakedNode)

SpecShutdown == InitShutdown /\ [][NextShutdown]_vars

\* ----------------------------------- application state: ChangeEpoch
\* Who signs a transaction: a registered node (its index), an account owner
\* key, or a node key the node table does not hold.
AccountOwner == MaxAppNode + 1
UnknownNode == MaxAppNode + 2
Senders == AppNodes \cup {AccountOwner, UnknownNode}

\* The tables ChangeEpoch and the beacon transactions read and write.
AppState ==
  [epoch |-> state_epoch, committee |-> committee_info, phase |-> beacon_phase,
   nodes |-> node_info, receipt |-> NoReceipt]

Revert(error) == [NoReceipt EXCEPT !.response = "Revert", !.error = error]
Success(change_epoch) ==
  [NoReceipt EXCEPT !.response = "Success", !.change_epoch = change_epoch]
\* The receipt r as the receipt of ChangeEpoch{epoch: e} from sender.
OfChangeEpoch(r, sender, e) ==
  [r EXCEPT !.method = "ChangeEpoch", !.sender = sender, !.epoch = e]
\* The receipt r as the receipt of a committee selection beacon transaction.
OfBeacon(r) == [r EXCEPT !.method = "CommitteeSelectionBeacon"]

\* Mutant: only unlocked stake counts.
has_sufficient_stake_staked_only(info) == info.staked >= MIN_STAKE

\* The stake that lets a node act: locked stake counts with the staked.
has_sufficient_stake(info) == info.staked + info.locked >= MIN_STAKE

\* Mutant: a node that has opted out no longer takes part.
is_participating_true_only(info) == info.participation = "True"

\* A node takes part in the current epoch when it participates or has opted
\* out, which takes effect at the next epoch; an opted-in or non-participating
\* node does not.
is_participating(info) == info.participation \in {"True", "OptedOut"}

\* Mutant: every member must signal.
epoch_change_threshold_all(members_len) == members_len

\* Mutant: two thirds of the members, without the one more.
epoch_change_threshold_two_thirds(members_len) == (2 * members_len) \div 3

\* The number of signals that starts the epoch change: more than two thirds
\* of the committee.
epoch_change_threshold(members_len) == (2 * members_len) \div 3 + 1

\* Mutant: the index is pushed at the end.
insert_ready_push(ready_to_change, index) == Append(ready_to_change, index)

\* ready_to_change with index inserted at its place in ascending order.
insert_ready(ready_to_change, index) ==
  LET below == SelectSeq(ready_to_change, LAMBDA i : i < index)
      above == SelectSeq(ready_to_change, LAMBDA i : i > index) IN
  below \o <<index>> \o above

\* Mutant: the committee is looked up before the stake and the participation.
change_epoch_error_member_first(S, sender, e) ==
  IF sender = AccountOwner THEN "OnlyNode"
  ELSE IF sender = UnknownNode THEN "NodeDoesNotExist"
  ELSE IF e < S.epoch THEN "EpochAlreadyChanged"
  ELSE IF e > S.epoch THEN "EpochHasNotStarted"
  ELSE IF sender \notin S.committee[e].members THEN "NotCommitteeMember"
  ELSE IF ~has_sufficient_stake(S.nodes[sender]) THEN "InsufficientStake"
  ELSE IF ~is_participating(S.nodes[sender]) THEN "NodeNotParticipating"
  ELSE IF sender \in Range(S.committee[e].ready_to_change) THEN "AlreadySignaled"
  ELSE "ok"

\* Mutant: any staked participating node may signal.
change_epoch_error_any_node(S, sender, e) ==
  IF sender = AccountOwner THEN "OnlyNode"
  ELSE IF sender = UnknownNode THEN "NodeDoesNotExist"
  ELSE IF ~has_sufficient_stake(S.nodes[sender]) THEN "InsufficientStake"
  ELSE IF ~is_participating(S.nodes[sender]) THEN "NodeNotParticipating"
  ELSE IF e < S.epoch THEN "EpochAlreadyChanged"
  ELSE IF e > S.epoch THEN "EpochHasNotStarted"
  ELSE IF sender \in Range(S.committee[e].ready_to_change) THEN "AlreadySignaled"
  ELSE "ok"

\* Mutant: a member may signal again.
change_epoch_error_signal_again(S, sender, e) ==
  IF sender = AccountOwner THEN "OnlyNode"
  ELSE IF sender = UnknownNode THEN "NodeDoesNotExist"
  ELSE IF ~has_sufficient_stake(S.nodes[sender]) THEN "InsufficientStake"
  ELSE IF ~is_participating(S.nodes[sender]) THEN "NodeNotParticipating"
  ELSE IF e < S.epoch THEN "EpochAlreadyChanged"
  ELSE IF e > S.epoch THEN "EpochHasNotStarted"
  ELSE IF sender \notin S.committee[e].members THEN "NotCommitteeMember"
  ELSE "ok"

\* ChangeEpoch{epoch: e} from sender: the first check that fails, in the
\* order the checks are made, or "ok".
change_epoch_error(S, sender, e) ==
  IF sender = AccountOwner THEN "OnlyNode"
  ELSE IF sender = UnknownNode THEN "NodeDoesNotExist"
  ELSE IF ~has_sufficient_stake(S.nodes[sender]) THEN "InsufficientStake"
  ELSE IF ~is_participating(S.nodes[sender]) THEN "NodeNotParticipating"
  ELSE IF e < S.epoch THEN "EpochAlreadyChanged"
  ELSE IF e > S.epoch THEN "EpochHasNotStarted"
  ELSE IF sender \notin S.committee[e].members THEN "NotCommitteeMember"
  ELSE IF sender \in Range(S.committee[e].ready_to_change) THEN "AlreadySignaled"
  ELSE "ok"

\* ChangeEpoch{epoch: e} from sender: a revert changes nothing; otherwise
\* the sender is recorded in ready_to_change and, when that reaches the
\* threshold and no beacon phase has started, the commit phase of round 0
\* starts.  The epoch is not changed here.
change_epoch(S, sender, e) ==
  LET error == change_epoch_error(S, sender, e) IN
  IF error # "ok"
    THEN [S EXCEPT !.receipt = OfChangeEpoch(Revert(error), sender, e)]
  ELSE LET ready == insert_ready(S.committee[e].ready_to_change, sender)
           members_len == Cardinality(S.committee[e].members) IN
       [S EXCEPT !.committee[e].ready_to_change = ready,
                 !.phase = IF /\ Len(ready) >= epoch_change_threshold(members_len)
                              /\ S.phase.phase = "None"
                             THEN [phase |-> "Commit", epoch |-> e, round |-> 0]
                             ELSE @,
                 !.receipt = OfChangeEpoch(Success(FALSE), sender, e)]

\* Writes an AppState back to the variables.
CommitApp(S) ==
  /\ state_epoch' = S.epoch
  /\ committee_info' = S.committee
  /\ beacon_phase' = S.phase
  /\ node_info' = S.nodes
  /\ receipt' = S.receipt

\* A block with the transaction ChangeEpoch{epoch: e} signed by sender.
ChangeEpoch(sender, e) ==
  /\ CommitApp(change_epoch(AppState, sender, e))
  /\ UNCHANGED <<app_vars, store_vars, exec_vars, worker_vars, loop_vars, co,
                 ctl_vars, ext_vars, out>>

\* Mutant: the epoch may also advance from the commit phase.
can_advance_epoch_from_commit(phase) == phase.phase \in {"Commit", "Reveal"}

\* The epoch advances from the reveal phase of a round only.
can_advance_epoch(phase) == phase.phase = "Reveal"

\* At the epoch boundary an opted-in node starts to participate and an
\* opted-out node stops.
participation_at_boundary(participation) ==
  IF participation = "OptedIn" THEN "True"
  ELSE IF participation = "OptedOut" THEN "False" ELSE participation

\* The nodes the next committee is chosen from.
eligible_nodes(nodes) ==
  {n \in AppNodes : has_sufficient_stake(nodes[n]) /\ nodes[n].participation = "True"}

\* The committees the beacon may select: COMMITTEE_SIZE of the eligible
\* nodes, or all of them when they are fewer.
next_committees(nodes) ==
  {c \in SUBSET eligible_nodes(nodes) :
     Cardinality(c) = IF Cardinality(eligible_nodes(nodes)) < COMMITTEE_SIZE
                        THEN Cardinality(eligible_nodes(nodes))
                        ELSE COMMITTEE_SIZE}

\* The commit phase of a round ends (enough commits, or a quorum of
\* CommitPhaseTimeout): the reveal phase of the round starts.
BeaconCommitPhaseEnds ==
  /\ beacon_phase.phase = "Commit"
  /\ beacon_phase' = [beacon_phase EXCEPT !.phase = "Reveal"]
  /\ receipt' = OfBeacon(Success(FALSE))
  /\ UNCHANGED <<state_epoch, committee_info, node_info>>
  /\ UNCHANGED <<app_vars, store_vars, exec_vars, worker_vars, loop_vars, co,
                 ctl_vars, ext_vars, out>>

\* The reveal phase of a round ends with a reveal missing (a quorum of
\* RevealPhaseTimeout): the commit phase of the next round starts.
BeaconRevealPhaseFails ==
  /\ beacon_phase.phase = "Reveal"
  /\ beacon_phase.round < MaxRound
  /\ beacon_phase' = [beacon_phase EXCEPT !.phase = "Commit", !.round = @ + 1]
  /\ receipt' = OfBeacon(Success(FALSE))
  /\ UNCHANGED <<state_epoch, committee_info, node_info>>
  /\ UNCHANGED <<app_vars, store_vars, exec_vars, worker_vars, loop_vars, co,
                 ctl_vars, ext_vars, out>>

\* The reveal phase ends with every reveal in: the rewards of the epoch
\* are distributed, the epoch advances, the committee of the new epoch is
\* recorded with nobody ready to change, and the beacon phase is cleared.
\* The block reports change_epoch.
BeaconRevealPhaseCompletes ==
  /\ can_advance_epoch(beacon_phase)
  /\ state_epoch < MaxAppEpoch
  /\ \E nodes \in {[n \in AppNodes |->
                     [node_info[n] EXCEPT
                        !.participation = participation_at_boundary(@)]]} :
       \E members \in next_committees(nodes) :
         /\ node_info' = nodes
         /\ committee_info' =
              [committee_info EXCEPT
                 ![state_epoch + 1] = [members |-> members, ready_to_change |-> <<>>]]
  /\ \E m \in {distribute_rewards(genesis_params, state_epoch, total_supply,
                                  supply_year_start)} :
       /\ total_supply' = m.total_supply
       /\ supply_year_start' = m.supply_year_start
  /\ state_epoch' = state_epoch + 1
  /\ beacon_phase' = NoPhase
  /\ receipt' = OfBeacon(Success(TRUE))
  /\ UNCHANGED <<app_vars, store_vars, exec_vars, worker_vars, loop_vars, co,
                 ctl_vars, genesis_params, signer_vars, out>>

NextEpoch ==
  \/ \E sender \in Senders, e \in AppEpochs : ChangeEpoch(sender, e)
  \/ BeaconCommitPhaseEnds
  \/ BeaconRevealPhaseFails
  \/ BeaconRevealPhaseCompletes

InitEpoch ==
  /\ Start
  /\ co = NoOutput
  /\ st_index = NoNodeIndex
  /\ ControllerNew(FALSE)
  /\ \E size \in GenesisCommitteeSizes, member \in GenesisMembers,
        other \in GenesisOthers :
       Genesis(size, member, other)

SpecEpoch == InitEpoch /\ [][NextEpoch]_vars

\* ------------------------------------- application state: OptIn, OptOut
\* OptIn or OptOut from sender: only a registered node may send it.
opt_error(S, sender) ==
  IF sender = AccountOwner THEN "OnlyNode"
  ELSE IF sender = UnknownNode THEN "NodeDoesNotExist"
  ELSE "ok"

\* The receipt r as the receipt of `method` from sender.
OfMethod(r, method, sender) == [r EXCEPT !.method = method, !.sender = sender]

\* OptIn (OptOut) from sender: the node's participation becomes OptedIn
\* (OptedOut); it becomes True (False) at the next epoch boundary.
set_participation(S, method, sender, participation) ==
  LET error == opt_error(S, sender) IN
  IF error # "ok"
    THEN [S EXCEPT !.receipt = OfMethod(Revert(error), method, sender)]
    ELSE [S EXCEPT !.nodes[sender].participation = participation,
                   !.receipt = OfMethod(Success(FALSE), method, sender)]

\* The nodes other than sender that have opted in or out in this epoch.
OptedBesides(sender) ==
  {n \in AppNodes \ {sender} : node_info[n].participation \in {"OptedIn", "OptedOut"}}

\* A block with the transaction OptOut signed by sender.
OptOut(sender) ==
  /\ Cardinality(OptedBesides(sender)) < MaxOpted
  /\ CommitApp(set_participation(AppState, "OptOut", sender, "OptedOut"))
  /\ UNCHANGED <<app_vars, store_vars, exec_vars, worker_vars, loop_vars, co,
                 ctl_vars, ext_vars, out>>

\* A block with the transaction OptIn signed by sender.
OptIn(sender) ==
  /\ Cardinality(OptedBesides(sender)) < MaxOpted
  /\ CommitApp(set_participation(AppState, "OptIn", sender, "OptedIn"))
  /\ UNCHANGED <<app_vars, store_vars, exec_vars, worker_vars, loop_vars, co,
                 ctl_vars, ext_vars, out>>

NextOpt ==
  \/ \E sender \in Senders, e \in AppEpochs : ChangeEpoch(sender, e)
  \/ \E sender \in Senders : OptOut(sender)
  \/ \E sender \in Senders : OptIn(sender)
  \/ BeaconCommitPhaseEnds
  \/ BeaconRevealPhaseFails
  \/ BeaconRevealPhaseCompletes

\* The genesis of the opt-out test: a committee of two staked, participating
\* nodes.
InitOpt ==
  /\ Start
  /\ co = NoOutput
  /\ st_index = NoNodeIndex
  /\ ControllerNew(FALSE)
  /\ \E other \in GenesisOthers : Genesis(2, StakedNode, other)

SpecOpt == InitOpt /\ [][NextOpt]_vars

\* ------------------------------------- application state: supply over years
\* The epoch ends (the reveal phase completes): the rewards are distributed
\* and the epoch advances.  The supply metadata is followed here over as
\* many epochs as MaxSupplyEpoch allows; the committee tables are left as
\* they are.
EpochChangeCompletes ==
  /\ state_epoch < MaxSupplyEpoch
  /\ \E m \in {distribute_rewards(genesis_params, state_epoch, total_supply,
                                  supply_year_start)} :
       /\ total_supply' = m.total_supply
       /\ supply_year_start' = m.supply_year_start
  /\ state_epoch' = state_epoch + 1
  /\ receipt' = OfBeacon(Success(TRUE))
  /\ UNCHANGED <<genesis_params, committee_info, beacon_phase, node_info>>
  /\ UNCHANGED <<app_vars, store_vars, exec_vars, worker_vars, loop_vars, co,
                 ctl_vars, signer_vars, out>>

NextSupply == EpochChangeCompletes

InitSupply ==
  /\ Start
  /\ co = NoOutput
  /\ st_index = NoNodeIndex
  /\ ControllerNew(FALSE)
  /\ state_epoch = GenesisEpoch
  /\ committee_info = [e \in AppEpochs |-> NoCommittee]
  /\ beacon_phase = NoPhase
  /\ node_info = [n \in AppNodes |-> StakedNode]
  /\ receipt = NoReceipt
  /\ \E G \in SupplyParams : SupplyGenesis(G)
  /\ SignerStart

SpecSupply == InitSupply /\ [][NextSupply]_vars

\* ------------------------------------------------- the signer at work
\* Writes a SignerState back to the variables.
CommitSigner(S) ==
  /\ base_nonce' = S.base_nonce
  /\ next_nonce' = S.next_nonce
  /\ next_secondary_nonce' = S.next_secondary_nonce
  /\ base_timestamp' = S.base_timestamp
  /\ pending_transactions' = S.pending_transactions

\* The payloads in `taken` reach the mempool.
MempoolTakes(taken) ==
  /\ mempool' = mempool \cup taken
  /\ handed' = [id \in TxIds |->
                  handed[id] + Cardinality({p \in taken : p.id = id})]

\* SignerWorker::handle: sign_new_tx for the next transaction; enqueue may
\* fail, which is logged and changes nothing else.
SignNewTx(enqueued) ==
  /\ signed < MaxSigned
  /\ signed' = signed + 1
  /\ \E S \in {sign_new_tx(SignerState, signed + 1, now)} :
       \E taken \in {IF enqueued
                       THEN {PayloadOfTx(S.pending_transactions[Len(S.pending_transactions)])}
                       ELSE {}} :
         /\ CommitSigner(S)
         /\ MempoolTakes(taken)
         /\ signer_out' = [NoSignerOut EXCEPT !.call = "sign_new_tx", !.taken = taken,
                                             !.before = SignerState, !.at = now]
  /\ UNCHANGED <<now, app_nonce, app_secondary_nonce>>
  /\ UNCHANGED <<app_vars, store_vars, exec_vars, worker_vars, loop_vars, co,
                 ctl_vars, state_vars, supply_vars, out>>

\* new_block_task: a block was executed; the nonces of the node are read
\* from the application and sync_with_application runs.
SyncWithApplication(reverts, fails) ==
  /\ \E r \in {sync_with_application(SignerState, app_nonce, app_secondary_nonce,
                                     reverts, fails, now)} :
       /\ CommitSigner(r.S)
       /\ MempoolTakes(r.taken)
       /\ signer_out' = [NoSignerOut EXCEPT !.call = "sync_with_application",
                                           !.taken = r.taken,
                                           !.reverts = reverts,
                                           !.resent = r.resent,
                                           !.before = SignerState, !.at = now]
  /\ UNCHANGED <<now, signed, app_nonce, app_secondary_nonce>>
  /\ UNCHANGED <<app_vars, store_vars, exec_vars, worker_vars, loop_vars, co,
                 ctl_vars, state_vars, supply_vars, out>>

\* The application executes a transaction of this node that the mempool
\* holds: its nonce is the next one and its secondary nonce exceeds the
\* stored one.
OrderTransaction(p) ==
  /\ p \in mempool
  /\ p.nonce = app_nonce + 1
  /\ p.secondary_nonce > app_secondary_nonce
  /\ app_nonce' = p.nonce
  /\ app_secondary_nonce' = p.secondary_nonce
  /\ signer_out' = [NoSignerOut EXCEPT !.call = "none"]
  /\ UNCHANGED <<base_nonce, next_nonce, next_secondary_nonce, base_timestamp,
                 pending_transactions, now, signed, mempool, handed>>
  /\ UNCHANGED <<app_vars, store_vars, exec_vars, worker_vars, loop_vars, co,
                 ctl_vars, state_vars, supply_vars, out>>

\* Time passes.
ClockAdvances(dt) ==
  /\ now + dt <= MaxTimeouts * TIMEOUT
  /\ now' = now + dt
  /\ signer_out' = [NoSignerOut EXCEPT !.call = "none"]
  /\ UNCHANGED <<base_nonce, next_nonce, next_secondary_nonce, base_timestamp,
                 pending_transactions, signed, mempool, handed, app_nonce,
                 app_secondary_nonce>>
  /\ UNCHANGED <<app_vars, store_vars, exec_vars, worker_vars, loop_vars, co,
                 ctl_vars, state_vars, supply_vars, out>>

NextSigner ==
  \/ \E enqueued \in BOOLEAN : SignNewTx(enqueued)
  \/ \E reverts \in SUBSET TxIds, fails \in SUBSET TxIds :
       SyncWithApplication(reverts, fails)
  \/ \E p \in mempool : OrderTransaction(p)
  \/ \E dt \in ClockSteps : ClockAdvances(dt)

InitSigner ==
  /\ Start
  /\ co = NoOutput
  /\ st_index = NoNodeIndex
  /\ OtherStart

SpecSigner == InitSigner /\ [][NextSigner]_vars

\* ================================================================ claims

\* ---- steps of the specifications, as seen by an action formula
\* A step of ExecTryExecute (every call is counted in events).
TryExecuteCall == events' = events + 1 /\ out'.kind = "try_execute"
\* The step in which handle_pubsub_event runs on an event of kind k.
HandleStep(k) == pc = "handle" /\ pc' = "done" /\ msg.kind = k
\* The step in which the worker takes a digest from timeout_rx.
RecvTimeoutStep == pc = "select" /\ timeout_rx # <<>> /\ timeout_rx' = Tail(timeout_rx)
\* The validity rule of the specification on the event being handled, with
\* the worker's cached committee and the epoch of the state.
StatedValid ==
  \/ msg.epoch = epoch /\ msg.originator \in committee
  \/ msg.epoch = epoch + 1
\* try_execute(d, t) would find t attestations on d and a complete chain of
\* stored parcels from d back to the head.
Executable(d, t) ==
  /\ num_attestations(attestations, d) >= t
  /\ walk_chain(parcels, d, <<>>, head).closed

\* C1 (as claimed): a batch is submitted by try_execute only if every parcel
\* of the executed chain, the intermediate links included, has at least
\* `threshold` stored attestations at that moment.
C1_EveryLinkHasQuorum ==
  out.kind = "try_execute" =>
    \A i \in 1..Len(out.submitted) :
      num_attestations(attestations, out.submitted[i]) >= out.threshold

\* C1 (amended): batches are submitted by try_execute only if the target digest
\* has at least `threshold` stored attestations and the submitted parcels are
\* stored and form the chain from the parcel whose last_executed is the head
\* up to the target; the links below the target need no attestations.
C1_TargetHasQuorumAndChainLinks ==
  (out.kind = "try_execute" /\ out.submitted # <<>>) =>
    LET s == out.submitted
        n == Len(s)
        before == Len(executed_log) - n IN
    /\ s[n] = out.try
    /\ num_attestations(attestations, s[n]) >= out.threshold
    /\ \A i \in 1..n : s[i] \in parcels
    /\ \A i \in 2..n : LastExecuted(s[i]) = s[i - 1]
    /\ LastExecuted(s[1]) = IF before = 0 THEN GenesisHead ELSE executed_log[before]

\* A chain of two parcels has been executed whose lower link has fewer
\* attestations than the threshold.
C1_Witness ==
  /\ out.kind = "try_execute"
  /\ Len(out.submitted) = 2
  /\ num_attestations(attestations, out.submitted[1]) < out.threshold

\* C2 (as claimed): whenever try_execute(d, threshold) is called while d has
\* at least `threshold` attestations and the stored parcels form a complete
\* chain from d back to the head, the chain is executed and Ok is returned,
\* also when d is in pending_digests from an earlier MissingParcel.
C2_ExecutableTargetIsExecuted ==
  [][\A d \in Digests, t \in 1..MaxThreshold :
       (TryExecuteCall /\ out'.try = d /\ out'.threshold = t /\ Executable(d, t))
         => (out'.res = "Ok" /\ d \in Range(out'.submitted)
             /\ d \in executed_digests')]_vars

\* C3 (as claimed): a valid Transactions(parcel) event whose digest is in
\* pending_requests makes handle_parcel register a timer for
\* parcel.last_executed, unless that digest has a timer or the cap is reached.
C3_RequestedParcelSetsTimer ==
  [][(/\ HandleStep("parcel")
      /\ StatedValid
      /\ to_digest(ParcelOf(msg.digest, msg.epoch)) \in pending_requests
      /\ LastExecuted(msg.digest) \notin pending_timeouts
      /\ Cardinality(pending_timeouts) < MAX_PENDING_TIMEOUTS)
       => LastExecuted(msg.digest) \in pending_timeouts']_vars

\* C4: a parcel event is accepted (not marked invalid) if and only if its
\* epoch is the current epoch and its originator is in the cached committee,
\* or its epoch is the current epoch + 1 whoever sent it; every older epoch
\* and every epoch from current + 2 on is rejected.  The same rule decides an
\* attestation whose originator is its node_index.
C4_ValidIffCurrentMemberOrNextEpoch ==
  [][(HandleStep("parcel")
        \/ (HandleStep("attestation") /\ msg.originator = msg.node_index))
       => /\ ~out'.marked <=> StatedValid
          /\ (msg.epoch < epoch \/ msg.epoch >= epoch + 2) => out'.marked]_vars

\* A parcel of the next epoch from a node outside the committee was accepted.
C4_Witness ==
  /\ pc = "done"
  /\ msg.kind = "parcel"
  /\ msg.epoch = epoch + 1
  /\ msg.originator \notin committee
  /\ ~out.marked
  /\ out.store = "StorePendingParcel"

\* C5: a parcel or attestation event that fails the validity rule, or an
\* attestation whose originator differs from att.node_index, is marked
\* invalid and dropped: not propagated, no store command, no timer, no
\* TryExecute.
C5_InvalidIsMarkedAndDropped ==
  [][((HandleStep("parcel") /\ ~StatedValid)
        \/ (HandleStep("attestation")
              /\ (~StatedValid \/ msg.originator # msg.node_index)))
       => /\ out'.marked
          /\ ~out'.propagated
          /\ out'.store = "none"
          /\ out'.req_timer = NoDigest
          /\ out'.try = NoDigest
          /\ UNCHANGED <<store_vars, exec_vars, pending_timeouts, timers>>]_vars

\* An attestation of the current epoch sent by a committee member under
\* another node's index was marked invalid.
C5_Witness ==
  /\ pc = "done"
  /\ msg.kind = "attestation"
  /\ msg.epoch = epoch
  /\ msg.originator \in committee
  /\ msg.originator # msg.node_index
  /\ out.marked
  /\ out.store = "none"

\* C6 (as claimed): the worker's quorum threshold is ceil(2n/3) + 1 for the
\* cached committee size n.
C6_ThresholdIsCeil ==
  quorom_threshold = Ceil(2 * Cardinality(committee), 3) + 1

\* C6 (amended): the worker's quorum threshold is floor(2n/3) + 1 for the
\* cached committee size n, at startup and after every committee refresh,
\* and it is the threshold passed to TryExecute.
C6_ThresholdIsFloor ==
  /\ quorom_threshold = (2 * Cardinality(committee)) \div 3 + 1
  /\ (pc = "done" /\ out.try # NoDigest /\ out.res = "MissingParcel")
       => out.threshold = quorom_threshold

\* The committee was refreshed after an epoch change to one of two members.
C6_Witness ==
  /\ epoch = FirstEpoch + 1
  /\ committee = st_committee
  /\ Cardinality(committee) = 2
  /\ quorom_threshold = 2
  /\ out.res = "Ok"
  /\ out.submitted # <<>>

\* C7 (as claimed): a valid attestation is propagated and stored with
\* StoreAttestation when it is of the current epoch, and not propagated and
\* stored with StorePendingAttestation (event retained) when it is of the
\* next epoch, whether or not the node is on the committee.
C7_StoredOnEveryNode ==
  [][(HandleStep("attestation") /\ StatedValid /\ msg.originator = msg.node_index)
       => IF msg.epoch = epoch + 1
            THEN /\ ~out'.propagated
                 /\ out'.store = "StorePendingAttestation"
                 /\ out'.retained
            ELSE /\ out'.propagated
                 /\ out'.store = "StoreAttestation"]_vars

\* C7 (amended): a valid attestation is propagated if and only if it is of
\* the current epoch, on every node; it is stored (StoreAttestation when of
\* the current epoch, StorePendingAttestation with the event retained when of
\* the next) only on a node that is not on the committee; a committee node
\* sends no store command for it.
C7_StoredOnEdgeNodesOnly ==
  [][(HandleStep("attestation") /\ StatedValid /\ msg.originator = msg.node_index)
       => /\ out'.propagated <=> msg.epoch # epoch + 1
          /\ IF on_committee
               THEN /\ out'.store = "none"
                    /\ UNCHANGED <<attestations, pending_attestations>>
               ELSE IF msg.epoch = epoch + 1
                 THEN /\ out'.store = "StorePendingAttestation"
                      /\ out'.retained
                      /\ [digest |-> msg.digest, node_index |-> msg.node_index]
                           \in pending_attestations'
                      /\ attestations' = attestations
                 ELSE /\ out'.store = "StoreAttestation"
                      /\ msg.node_index \in attestations'[msg.digest]]_vars

\* A committee node propagated a valid attestation and stored nothing.
C7_Witness ==
  /\ pc = "done"
  /\ msg.kind = "attestation"
  /\ on_committee
  /\ out.propagated
  /\ out.store = "none"

\* C8: for a valid parcel event, propagate() is called if and only if the
\* parcel digest is not in pending_requests and the parcel is not of the next
\* epoch; one store command is sent, StorePendingParcel with the event
\* retained for the next epoch, StoreParcel otherwise.
C8_ParcelPropagateAndStore ==
  [][(HandleStep("parcel") /\ StatedValid)
       => LET d == to_digest(ParcelOf(msg.digest, msg.epoch)) IN
          /\ out'.propagated <=> (d \notin pending_requests /\ msg.epoch # epoch + 1)
          /\ IF msg.epoch = epoch + 1
               THEN /\ out'.store = "StorePendingParcel"
                    /\ out'.retained
                    /\ [digest |-> d, originator |-> msg.originator]
                         \in pending_parcels'
                    /\ parcels' = parcels
               ELSE /\ out'.store = "StoreParcel"
                    /\ d \in parcels'
                    /\ pending_parcels' = pending_parcels]_vars

\* A requested parcel of the current epoch arrived: stored, not propagated.
C8_Witness ==
  /\ pc = "done"
  /\ msg.kind = "parcel"
  /\ msg.epoch = epoch
  /\ out.store = "StoreParcel"
  /\ ~out.propagated
  /\ msg.digest \in parcels

\* C9 (as claimed): RequestTransactions(d) is not broadcast while d is in
\* pending_requests.
C9_NoRequestWhilePending ==
  [][(RecvTimeoutStep /\ out'.request # NoDigest)
       => out'.request \notin pending_requests]_vars

\* C9 (amended): RequestTransactions(d) is broadcast only when the one
\* outstanding timer of d is received while parcel d is not stored, and that
\* uses the timer up; d being in pending_requests does not suppress a repeat
\* once a later try_execute has registered a new timer for d.
C9_OneRequestPerTimer ==
  [][(RecvTimeoutStep /\ out'.request # NoDigest)
       => LET d == out'.request IN
          /\ d = Head(timeout_rx)
          /\ d \notin parcels
          /\ d \in pending_timeouts
          /\ d \notin pending_timeouts'
          /\ d \notin timers'
          /\ d \notin Range(timeout_rx')]_vars

\* A request was broadcast when a timer was received.
C9_Witness ==
  /\ out.kind = "timeout"
  /\ out.request # NoDigest
  /\ out.request \in pending_requests
  /\ out.request \notin pending_timeouts
  /\ out.request \notin parcels

\* C10: when the timer of digest d is received, d leaves pending_timeouts, and
\* RequestTransactions(d) is broadcast and d put in pending_requests if and
\* only if the store does not hold parcel d.
C10_TimerRequestsIffMissing ==
  [][RecvTimeoutStep
       => LET d == Head(timeout_rx) IN
          /\ d \notin pending_timeouts'
          /\ IF d \notin parcels
               THEN out'.request = d /\ d \in pending_requests'
               ELSE out'.request = NoDigest /\ pending_requests' = pending_requests]_vars

\* A timer was received after its parcel had arrived: nothing was requested.
C10_Witness ==
  /\ out.kind = "timeout"
  /\ out.request = NoDigest
  /\ pending_requests = {}
  /\ parcels # {}
  /\ timeout_rx = <<>>
  /\ pending_timeouts = {}
  /\ executed_log # <<>>

\* A step of the worker that handles a parcel or an attestation.
GossipStep == HandleStep("parcel") \/ HandleStep("attestation")

\* C11: the timer registered for an answer MissingParcel{digest, timeout}
\* waits for the duration the answer carries.
C11_TimerWaitsReturnedTimeout ==
  [][(GossipStep /\ out'.res = "MissingParcel" /\ out'.missing \in timers' \ timers)
       => out'.timer_wait = out'.timeout]_vars

\* C12: at most MAX_PENDING_TIMEOUTS parcel timers are outstanding, at most
\* one per digest, and they are the digests of pending_timeouts: a timer is
\* outstanding from its spawn until the worker takes its digest from the
\* timeout channel.  A MissingParcel answer for a digest that has a timer, or
\* given while MAX_PENDING_TIMEOUTS are outstanding, spawns nothing.
C12_TimersBoundedByCap ==
  /\ [](/\ Cardinality(pending_timeouts) <= MAX_PENDING_TIMEOUTS
        /\ pending_timeouts = timers \cup Range(timeout_rx)
        /\ timers \cap Range(timeout_rx) = {}
        /\ Cardinality(Range(timeout_rx)) = Len(timeout_rx))
  /\ [][(GossipStep /\ out'.res = "MissingParcel")
          => IF \/ out'.missing \in pending_timeouts
                \/ Cardinality(pending_timeouts) >= MAX_PENDING_TIMEOUTS
               THEN UNCHANGED <<pending_timeouts, timers>>
               ELSE /\ pending_timeouts' = pending_timeouts \cup {out'.missing}
                    /\ timers' = timers \cup {out'.missing}]_vars

\* MAX_PENDING_TIMEOUTS timers were outstanding and a further MissingParcel
\* answer spawned none.
C12_Witness ==
  /\ pc = "done"
  /\ out.res = "MissingParcel"
  /\ out.missing \notin pending_timeouts
  /\ out.timer_wait = 0
  /\ Cardinality(pending_timeouts) = MAX_PENDING_TIMEOUTS
  /\ pending_timeouts = timers \cup Range(timeout_rx)

\* The first digest the store does not hold on the walk of last_executed
\* pointers from d towards the head hd; NoDigest when the walk reaches hd.
RECURSIVE FirstGap(_, _, _)
FirstGap(P, d, hd) ==
  IF d \notin P THEN d
  ELSE IF LastExecuted(d) = hd THEN NoDigest
  ELSE FirstGap(P, LastExecuted(d), hd)

\* C13: a call whose walk meets a digest the store does not hold answers
\* MissingParcel with exactly that digest, the first gap, and submits no batch
\* of the partial chain.
C13_MissingParcelAtFirstGap ==
  [][TryExecuteCall
       => LET d == out'.try
              gap == FirstGap(parcels, d, head)
              walks == /\ d \notin pending_digests
                       /\ num_attestations(attestations, d) >= out'.threshold IN
          /\ (out'.res = "MissingParcel") <=> (walks /\ gap # NoDigest)
          /\ out'.res = "MissingParcel"
               => /\ out'.missing = gap
                  /\ out'.missing \notin parcels
                  /\ out'.submitted = <<>>
                  /\ out'.blocks = <<>>
                  /\ head' = head
                  /\ executed_log' = executed_log]_vars

\* The target was stored and attested, its predecessor was not stored.
C13_Witness ==
  /\ out.kind = "try_execute"
  /\ out.res = "MissingParcel"
  /\ out.try \in parcels
  /\ out.missing = LastExecuted(out.try)
  /\ out.missing \notin parcels
  /\ out.try \in pending_digests
  /\ executed_log = <<>>

\* C14: a chain that closes is submitted oldest batch first: the first block
\* follows the head, each next block follows the one before it, the last is
\* the target, and every block carries its parcel's digest, sub_dag_index and
\* transactions.
C14_SubmittedOldestFirst ==
  [][(TryExecuteCall /\ out'.res = "Ok" /\ out'.try \notin pending_digests
        /\ num_attestations(attestations, out'.try) >= out'.threshold)
       => LET b == out'.blocks
              n == Len(b) IN
          /\ n >= 1
          /\ LastExecuted(b[1].digest) = head
          /\ \A i \in 2..n : LastExecuted(b[i].digest) = b[i - 1].digest
          /\ \E k \in 1..n :
               /\ b[k].digest = out'.try
               /\ \A i \in 1..k : b[i].digest \in parcels
          /\ \A i \in 1..n :
               /\ b[i].payload = PayloadOf(Transactions(b[i].digest))
               /\ b[i].sub_dag_index = SubDagIndexOf(b[i].digest)
          /\ executed_log' = executed_log \o [i \in 1..n |-> b[i].digest]
          /\ head' = b[n].digest]_vars

\* A chain of two parcels was submitted by one call.
C14_Witness ==
  /\ out.kind = "try_execute"
  /\ out.res = "Ok"
  /\ Len(out.blocks) = 2
  /\ out.blocks[2].digest = out.try
  /\ LastExecuted(out.blocks[2].digest) = out.blocks[1].digest
  /\ head = out.try

\* C15: a node whose on_committee flag is set calls try_execute for no gossip
\* event; a node whose flag is clear calls it once for a valid parcel, with
\* the parcel's digest, and once for a valid attestation, with the attested
\* digest.
C15_TryExecuteOnlyOffCommittee ==
  [][/\ (HandleStep("parcel") /\ StatedValid)
          => out'.try = IF on_committee THEN NoDigest
                        ELSE to_digest(ParcelOf(msg.digest, msg.epoch))
     /\ (HandleStep("attestation") /\ StatedValid /\ msg.originator = msg.node_index)
          => out'.try = IF on_committee THEN NoDigest ELSE msg.digest
     /\ HandleStep("request") => out'.try = NoDigest
     /\ ((GossipStep \/ HandleStep("request")) /\ on_committee)
          => UNCHANGED <<head, executed_log, pending_digests, executed_digests>>]_vars

\* A committee member stored a valid parcel and did not call try_execute.
C15_Witness ==
  /\ pc = "done"
  /\ msg.kind = "parcel"
  /\ on_committee
  /\ out.kind = "parcel"
  /\ ~out.marked
  /\ out.store = "StoreParcel"
  /\ out.try = NoDigest
  /\ msg.digest \in parcels

\* C16: a RequestTransactions(digest) from o is answered by repropagating the
\* stored message of parcel digest with o as the only excluded peer when the
\* store holds that message, and by nothing otherwise; the request is neither
\* propagated nor stored.
C16_RequestRepropagatesStoredParcel ==
  [][HandleStep("request")
       => /\ out'.repropagated <=> (msg.digest \in parcels /\ msg.digest \in message_digests)
          /\ out'.repropagated => out'.exclude = {msg.originator}
          /\ ~out'.propagated
          /\ ~out'.marked
          /\ out'.store = "none"
          /\ out'.request = NoDigest
          /\ UNCHANGED <<parcels, attestations, message_digests, pending_requests,
                         pending_timeouts, timers>>]_vars

\* A request for a parcel received before was answered.
C16_Witness ==
  /\ pc = "done"
  /\ msg.kind = "request"
  /\ out.kind = "request"
  /\ out.repropagated
  /\ out.exclude = {msg.originator}
  /\ msg.digest \in parcels

\* C17: when a block executed by a gossip handler's try_execute changes the
\* epoch, the handler ends with committee, threshold, our_index and
\* on_committee read again from the new state and with the reconfiguration
\* channel notified; when none does, the four cached values are unchanged and
\* nothing is notified.
C17_RefreshIffEpochChanged ==
  [][GossipStep
       => IF epoch' # epoch
            THEN /\ committee' = st_committee'
                 /\ quorom_threshold' = (2 * Cardinality(st_committee')) \div 3 + 1
                 /\ our_index' = (IF st_index \in Nodes THEN st_index ELSE NoNodeIndex)
                 /\ on_committee' = (st_index \in st_committee')
                 /\ out'.reconfigured
            ELSE /\ UNCHANGED <<committee, quorom_threshold, our_index, on_committee>>
                 /\ ~out'.reconfigured]_vars

\* An edge node executed a block that put it on the committee.
C17_Witness ==
  /\ pc = "done"
  /\ out.kind \in {"parcel", "attestation"}
  /\ out.reconfigured
  /\ epoch = FirstEpoch + 1
  /\ committee = st_committee
  /\ committee # GenesisCommittee
  /\ on_committee

\* C18: a try_execute for a digest with fewer attestations than the threshold
\* registers no timer and sends no RequestTransactions.
C18_NoTimerBelowThreshold ==
  [][(GossipStep /\ out'.try # NoDigest
        /\ num_attestations(attestations', out'.try) < quorom_threshold)
       => /\ UNCHANGED <<pending_timeouts, timers, timeout_rx, pending_requests>>
          /\ out'.timer_wait = 0
          /\ out'.request = NoDigest
          /\ out'.res # "MissingParcel"]_vars

\* One attestation for a parcel the store does not hold: nothing registered.
C18_Witness ==
  /\ pc = "done"
  /\ msg.kind = "attestation"
  /\ out.try = msg.digest
  /\ num_attestations(attestations, out.try) = 1
  /\ quorom_threshold = 2
  /\ out.try \notin parcels
  /\ pending_timeouts = {}
  /\ timers = {}

\* The steps in which the select of the worker takes a branch.
TakeEventStep == pc = "select" /\ pc' = "handle"
RecvEpochChangedStep ==
  pc = "select" /\ pc' = "select" /\ epoch_changed_sub' = epoch_changed_sub - 1
LoopExitStep == pc = "select" /\ pc' = "stopped"

\* C19: with the shutdown signal delivered, the select leaves the loop and
\* takes no epoch-changed notification, event or timer digest, whatever else
\* is ready, and the worker does nothing afterwards; without it, a pub/sub
\* event is taken only when no epoch-changed notification is ready and a
\* timer digest only when neither a notification nor an event is ready.
C19_ShutdownFirstThenBranchOrder ==
  /\ [][(pc = "select" /\ shutdown)
          => /\ ~TakeEventStep /\ ~RecvTimeoutStep /\ ~RecvEpochChangedStep
             /\ UNCHANGED <<committee, quorom_threshold, our_index, on_committee,
                            pending_timeouts, pending_requests, msg, store_vars>>]_vars
  /\ [][LoopExitStep => shutdown]_vars
  /\ [][pc = "stopped"
          => /\ pc' = "stopped"
             /\ UNCHANGED <<committee, quorom_threshold, our_index, on_committee,
                            pending_timeouts, pending_requests, msg, store_vars,
                            app_vars, exec_vars>>
             /\ inbox' \in {inbox} \cup {Append(inbox, m) : m \in SelectEvents}
             /\ timeout_rx' \in {timeout_rx} \cup {Append(timeout_rx, d) : d \in timers}
             /\ epoch_changed_sub' = epoch_changed_sub]_vars
  /\ [][TakeEventStep => epoch_changed_sub = 0]_vars
  /\ [][RecvTimeoutStep => (epoch_changed_sub = 0 /\ inbox = <<>>)]_vars

\* The loop was left while a notification, an event and a timer digest were
\* all ready.
C19_Witness ==
  /\ pc = "stopped"
  /\ shutdown
  /\ epoch_changed_sub > 0
  /\ inbox # <<>>
  /\ timeout_rx # <<>>

\* A step of ExecHandleConsensusOutput.
OutputStep == events' = events + 1 /\ out'.kind = "consensus_output"

\* The transactions, in order, of the batches of co whose certificate is of
\* epoch e.
CurrentEpochTxns(e) ==
  LET current == SelectSeq(co.certs, LAMBDA cert : cert.epoch = e) IN
  flatten([i \in 1..Len(current) |-> flatten(current[i].batches)])

\* A transaction that deserializes and is not in the executed table.
Fresh(txn) == txn # BadTxn /\ txn \notin co.executed

\* C20: handle_consensus_output submits one block whose transactions are, in
\* order, those of the batches whose certificate is of the current epoch,
\* without the ones that do not deserialize or are already executed, and
\* emits the parcel; when the batches of the current epoch hold no
\* transaction, no block is submitted and no parcel emitted.
C20_BlockOfCurrentEpochBatches ==
  [][OutputStep
       => LET txns == CurrentEpochTxns(epoch) IN
          IF txns = <<>>
            THEN /\ out'.blocks = <<>>
                 /\ ~out'.emitted
                 /\ UNCHANGED <<head, epoch, executed_log>>
            ELSE /\ Len(out'.blocks) = 1
                 /\ out'.blocks[1].transactions = SelectSeq(txns, Fresh)
                 /\ out'.blocks[1].payload = txns
                 /\ out'.emitted
                 /\ head' = out'.blocks[1].digest
                 /\ executed_log' = Append(executed_log, head')]_vars

\* A block was submitted from an output that also held a batch of another
\* epoch and a transaction that was dropped.
C20_Witness ==
  /\ out.kind = "consensus_output"
  /\ out.emitted
  /\ Len(out.blocks) = 1
  /\ out.blocks[1].transactions # <<>>
  /\ out.blocks[1].transactions # out.blocks[1].payload
  /\ \E i \in 1..Len(co.certs) :
       /\ co.certs[i].epoch # FirstEpoch
       /\ flatten(co.certs[i].batches) # <<>>

\* C21: pending_digests and executed_digests are disjoint after any sequence
\* of calls on Execution: a digest marked executed is not pending again.
C21_PendingAndExecutedDisjoint ==
  pending_digests \cap executed_digests = {}

\* C22: get_parcel_timeout returns 4 * deviation_tbe + estimated_tbe clamped
\* to [MIN_TBE, MAX_TBE] (30 s to 40 s) after any sequence of
\* update_estimated_tbe calls, and MAX_TBE for the estimates of a new
\* Execution.
C22_TimeoutClamped ==
  out.kind = "get_parcel_timeout"
    => LET raw == 4 * parcel_timeout_data.deviation_tbe
                    + parcel_timeout_data.estimated_tbe IN
       /\ out.timeout \in MIN_TBE..MAX_TBE
       /\ (raw <= MIN_TBE => out.timeout = MIN_TBE)
       /\ (raw >= MAX_TBE => out.timeout = MAX_TBE)
       /\ (raw \in MIN_TBE..MAX_TBE => out.timeout = raw)
       /\ ((/\ parcel_timeout_data.estimated_tbe = InitialEstimatedTbe
            /\ parcel_timeout_data.deviation_tbe = InitialDeviationTbe)
             => out.timeout = MAX_TBE)

\* get_parcel_timeout was called when the estimates had fallen so far that
\* the lower clamp applied.
C22_Witness ==
  /\ out.kind = "get_parcel_timeout"
  /\ 4 * parcel_timeout_data.deviation_tbe + parcel_timeout_data.estimated_tbe
       < MIN_TBE
  /\ out.timeout = MIN_TBE

\* C23: shutdown() triggers the shutdown signal and returns only when every
\* future waiting for the shutdown has dropped, however long that takes;
\* while one remains it wakes after every 5 seconds of sleep and goes on
\* waiting; it prints the pending backtraces only after the third sleep and
\* later ones (15 seconds or more), and only when the controller captures
\* backtraces; trigger_shutdown on a controller already shut down changes
\* nothing.
C23_ShutdownWaitsForCompletion ==
  [][/\ (sd_pc = "idle" /\ sd_pc' # "idle" => is_shutdown' /\ sd_pc' = "select")
     /\ (sd_pc # "returned" /\ sd_pc' = "returned"
           => pending_futures = 0 /\ is_shutdown)
     /\ (sd_pc = "select" /\ pending_futures > 0 => sd_pc' = "select")
     /\ (sd_out'.call = "sleep"
           => /\ sd_slept' = sd_slept + SHUTDOWN_SLEEP
              /\ sd_slept' = (sd_i + 1) * SHUTDOWN_SLEEP
              /\ is_shutdown
              /\ sd_out'.dumped = (capture_backtrace /\ sd_slept' >= 3 * SHUTDOWN_SLEEP))
     /\ (sd_out'.call # "sleep" => ~sd_out'.dumped)
     /\ (sd_out'.call = "trigger_shutdown" /\ is_shutdown
           => UNCHANGED <<capture_backtrace, is_shutdown, pending_futures,
                          sd_pc, sd_i, sd_slept>>)]_vars

\* shutdown() printed the pending backtraces after its third sleep and is
\* still waiting for a future to drop.
C23_Witness ==
  /\ sd_pc = "select"
  /\ sd_out.call = "sleep"
  /\ sd_out.dumped
  /\ sd_slept = 3 * SHUTDOWN_SLEEP
  /\ pending_futures > 0

\* ---- steps of SpecEpoch, as seen by an action formula
\* The step that executes a ChangeEpoch transaction; its sender and epoch
\* are in the receipt.
ChangeEpochStep == receipt'.method = "ChangeEpoch"
\* The step in which a ChangeEpoch for the current epoch is recorded.
SignalRecorded ==
  /\ ChangeEpochStep
  /\ committee_info'[state_epoch].ready_to_change
       # committee_info[state_epoch].ready_to_change
\* The commit phase of round 0 of epoch e.
CommitPhaseOf(e) == [phase |-> "Commit", epoch |-> e, round |-> 0]
\* ceil(2 * n / 3) and floor(2 * n / 3).
CeilTwoThirds(n) == (2 * n + 2) \div 3
FloorTwoThirds(n) == (2 * n) \div 3

\* C24: in a committee of 4 with nobody recorded yet, the signals of members
\* 0 and 1 leave the epoch and the beacon phase (None) as they were with
\* ready_to_change = [0, 1]; the signal of member 2 then starts the commit
\* phase (e, 0) with ready_to_change[e] = [0, 1, 2], the epoch still e and
\* ready_to_change[e + 1] empty.
C24_ThirdSignalStartsCommit ==
  [][(/\ SignalRecorded
      /\ Cardinality(committee_info[state_epoch].members) = COMMITTEE_SIZE
      /\ {0, 1, 2} \subseteq committee_info[state_epoch].members)
       => LET e == state_epoch
              before == committee_info[e].ready_to_change
              after == committee_info'[e].ready_to_change IN
          /\ (after \in {<<0>>, <<1>>, <<0, 1>>}
                => /\ state_epoch' = e
                   /\ beacon_phase'.phase = "None"
                   /\ beacon_phase.phase = "None")
          /\ (before = <<0, 1>> /\ receipt'.sender = 2
                => /\ after = <<0, 1, 2>>
                   /\ beacon_phase' = CommitPhaseOf(e)
                   /\ state_epoch' = e
                   /\ committee_info'[e + 1].ready_to_change = <<>>)]_vars

\* Member 2 of a committee of 4 has just signalled after members 0 and 1,
\* and the commit phase has started.
C24_Witness ==
  /\ Cardinality(committee_info[state_epoch].members) = COMMITTEE_SIZE
  /\ committee_info[state_epoch].ready_to_change = <<0, 1, 2>>
  /\ receipt.method = "ChangeEpoch"
  /\ receipt.response = "Success"
  /\ receipt.sender = 2
  /\ beacon_phase = CommitPhaseOf(state_epoch)

\* C25 as stated: a successful ChangeEpoch moves the beacon phase from None
\* to Commit((epoch, 0)) exactly when ready_to_change, with the sender
\* inserted, has at least ceil(2 * |members| / 3) + 1 entries.
C25_CeilThreshold ==
  [][(SignalRecorded /\ beacon_phase.phase = "None")
       => LET c == committee_info'[state_epoch] IN
          IF Len(c.ready_to_change) >= CeilTwoThirds(Cardinality(c.members)) + 1
            THEN beacon_phase' = CommitPhaseOf(state_epoch)
            ELSE beacon_phase'.phase = "None"]_vars

\* C25, amended: a successful ChangeEpoch moves the beacon phase from None
\* to Commit((epoch, 0)) exactly when ready_to_change, with the sender
\* inserted, has at least floor(2 * |members| / 3) + 1 entries; below that
\* the phase stays None.
C25_FloorThreshold ==
  [][(SignalRecorded /\ beacon_phase.phase = "None")
       => LET c == committee_info'[state_epoch] IN
          IF Len(c.ready_to_change) >= FloorTwoThirds(Cardinality(c.members)) + 1
            THEN beacon_phase' = CommitPhaseOf(state_epoch)
            ELSE beacon_phase'.phase = "None"]_vars

\* Both members of a committee of 2 have signalled and the commit phase has
\* started.
C25_Witness ==
  /\ Cardinality(committee_info[state_epoch].members) = 2
  /\ Len(committee_info[state_epoch].ready_to_change) = 2
  /\ receipt.method = "ChangeEpoch"
  /\ receipt.response = "Success"
  /\ beacon_phase = CommitPhaseOf(state_epoch)

ReadySet(e) == Range(committee_info[e].ready_to_change)
\* The node may signal as far as its stake and participation go.
MaySignal(n) ==
  /\ n \in AppNodes
  /\ node_info[n].staked + node_info[n].locked >= MIN_STAKE
  /\ node_info[n].participation \in {"True", "OptedOut"}

C28_SignalsOnce ==
  [][/\ (/\ ChangeEpochStep
         /\ receipt'.epoch = state_epoch
         /\ MaySignal(receipt'.sender)
         /\ receipt'.sender \in committee_info[state_epoch].members)
          => IF receipt'.sender \in ReadySet(state_epoch)
               THEN /\ receipt'.response = "Revert"
                    /\ receipt'.error = "AlreadySignaled"
                    /\ UNCHANGED <<state_epoch, committee_info, beacon_phase,
                                   node_info>>
               ELSE /\ receipt'.response = "Success"
                    /\ Range(committee_info'[state_epoch].ready_to_change)
                         = ReadySet(state_epoch) \cup {receipt'.sender}
     /\ \A e \in AppEpochs :
          Cardinality(Range(committee_info'[e].ready_to_change))
            = Len(committee_info'[e].ready_to_change)]_vars

\* A recorded member signalled again for the current epoch and was reverted
\* with AlreadySignaled.
C28_Witness ==
  /\ receipt.method = "ChangeEpoch"
  /\ receipt.error = "AlreadySignaled"
  /\ receipt.epoch = state_epoch
  /\ receipt.sender \in ReadySet(state_epoch)

\* C29: ready_to_change[e] holds only indices of committee[e].members, in
\* ascending order without duplicates; it loses no element while e is the
\* current epoch; ready_to_change[e + 1] is empty when e + 1 becomes the
\* current epoch.
C29_ReadyToChangeSet ==
  [][/\ \A e \in AppEpochs :
          LET ready == committee_info'[e].ready_to_change IN
          /\ Range(ready) \subseteq committee_info'[e].members
          /\ \A i \in 1..Len(ready), j \in 1..Len(ready) : i < j => ready[i] < ready[j]
     /\ (state_epoch' = state_epoch
          => ReadySet(state_epoch)
               \subseteq Range(committee_info'[state_epoch].ready_to_change))
     /\ (state_epoch' # state_epoch
          => /\ committee_info'[state_epoch'].ready_to_change = <<>>
             /\ committee_info'[state_epoch] = committee_info[state_epoch])]_vars

\* In the epoch after genesis a member with a lower index was recorded after
\* one with a higher index, and the genesis epoch keeps its record.
C29_Witness ==
  /\ state_epoch = GenesisEpoch + 1
  /\ Len(committee_info[state_epoch].ready_to_change) >= 2
  /\ receipt.method = "ChangeEpoch"
  /\ receipt.response = "Success"
  /\ receipt.sender = committee_info[state_epoch].ready_to_change[1]
  /\ committee_info[GenesisEpoch].ready_to_change # <<>>

\* C30: the ChangeEpoch that reaches the quorum does not change the epoch:
\* its block reports change_epoch = false and the epoch stays e with the
\* beacon in Commit((e, 0)); the epoch becomes e + 1 only from the reveal
\* phase of a round, which is entered only from the commit phase of that
\* round, never from None or Commit.
C30_EpochChangesAfterReveal ==
  [][/\ (ChangeEpochStep
          => /\ ~receipt'.change_epoch
             /\ state_epoch' = state_epoch
             /\ (beacon_phase' # beacon_phase
                  => /\ beacon_phase.phase = "None"
                     /\ beacon_phase' = CommitPhaseOf(state_epoch)))
     /\ (state_epoch' # state_epoch
          => /\ state_epoch' = state_epoch + 1
             /\ beacon_phase.phase = "Reveal"
             /\ beacon_phase.epoch = state_epoch
             /\ receipt'.change_epoch)
     /\ (beacon_phase'.phase = "Reveal" /\ beacon_phase # beacon_phase'
          => beacon_phase = [beacon_phase' EXCEPT !.phase = "Commit"])
     /\ (beacon_phase'.phase = "Commit" /\ beacon_phase.phase = "None"
          => ChangeEpochStep)]_vars

\* The epoch has just advanced out of the reveal phase.
C30_Witness ==
  /\ state_epoch = GenesisEpoch + 1
  /\ receipt.change_epoch
  /\ receipt.method = "CommitteeSelectionBeacon"
  /\ beacon_phase.phase = "None"

\* ---- the committee of two of the locked-stake test
\* The node has only locked stake, of the minimum amount.
LockedOnly(n) == node_info[n].staked = 0 /\ node_info[n].locked = MIN_STAKE
\* The node has only unlocked stake, of the minimum amount.
UnlockedOnly(n) == node_info[n].staked = MIN_STAKE /\ node_info[n].locked = 0
\* ChangeEpoch for the current epoch from member `a` of a committee {a, b}
\* in which `a` has only locked stake and `b` only unlocked stake, while the
\* beacon phase is None.
LockedPairStep(a, b) ==
  /\ ChangeEpochStep
  /\ receipt'.epoch = state_epoch
  /\ a # b
  /\ committee_info[state_epoch].members = {a, b}
  /\ LockedOnly(a)
  /\ UnlockedOnly(b)
  /\ beacon_phase.phase = "None"

\* C31 as stated: in a committee of 2 where one member has staked = 0,
\* locked = min_stake and the other staked = min_stake, locked = 0, the
\* first ChangeEpoch, from the member with locked stake, succeeds with
\* change_epoch = false, does not add it to ready_to_change and leaves the
\* phase None; the following ChangeEpoch from the other member reports
\* change_epoch = false and leaves the phase at Commit((e, 0)).
C31_LockedMemberNotRecorded ==
  [][\A a \in AppNodes, b \in AppNodes :
       /\ (LockedPairStep(a, b) /\ receipt'.sender = a /\ ReadySet(state_epoch) = {}
            => /\ receipt'.response = "Success"
               /\ ~receipt'.change_epoch
               /\ a \notin Range(committee_info'[state_epoch].ready_to_change)
               /\ beacon_phase' = NoPhase)
       /\ (LockedPairStep(a, b) /\ receipt'.sender = b /\ b \notin ReadySet(state_epoch)
                                /\ receipt.sender = a /\ receipt.response = "Success"
            => /\ ~receipt'.change_epoch
               /\ beacon_phase' = CommitPhaseOf(state_epoch))]_vars

\* C31, amended: the first ChangeEpoch, from the member with only locked
\* stake, succeeds with change_epoch = false, records that member in
\* ready_to_change and leaves the phase None; the following ChangeEpoch
\* from the other member succeeds with change_epoch = false, and with both
\* members recorded the phase becomes Commit((e, 0)).
C31_LockedMemberRecorded ==
  [][\A a \in AppNodes, b \in AppNodes :
       /\ (LockedPairStep(a, b) /\ receipt'.sender = a /\ ReadySet(state_epoch) = {}
            => /\ receipt'.response = "Success"
               /\ ~receipt'.change_epoch
               /\ committee_info'[state_epoch].ready_to_change = <<a>>
               /\ beacon_phase' = NoPhase)
       /\ (LockedPairStep(a, b) /\ receipt'.sender = b /\ b \notin ReadySet(state_epoch)
                                /\ receipt.sender = a /\ receipt.response = "Success"
            => /\ receipt'.response = "Success"
               /\ ~receipt'.change_epoch
               /\ Range(committee_info'[state_epoch].ready_to_change) = {a, b}
               /\ beacon_phase' = CommitPhaseOf(state_epoch))]_vars

\* The member with unlocked stake has just signalled after the member with
\* only locked stake, and the commit phase has started.
C31_Witness ==
  /\ \E a \in AppNodes, b \in AppNodes :
       /\ committee_info[state_epoch].members = {a, b}
       /\ a # b
       /\ LockedOnly(a)
       /\ UnlockedOnly(b)
       /\ receipt.sender = b
  /\ Len(committee_info[state_epoch].ready_to_change) = 2
  /\ receipt.method = "ChangeEpoch"
  /\ receipt.response = "Success"
  /\ ~receipt.change_epoch
  /\ beacon_phase = CommitPhaseOf(state_epoch)

\* ---- ChangeEpoch from a node that has opted out or in
\* ChangeEpoch for the current epoch from a staked committee member that has
\* opted out in this epoch and is not recorded yet.
OptedOutMemberSignals ==
  /\ ChangeEpochStep
  /\ receipt'.epoch = state_epoch
  /\ receipt'.sender \in committee_info[state_epoch].members
  /\ node_info[receipt'.sender].participation = "OptedOut"
  /\ node_info[receipt'.sender].staked >= MIN_STAKE
  /\ receipt'.sender \notin ReadySet(state_epoch)
\* ChangeEpoch for the current epoch from a staked node that has opted in and
\* does not participate yet.
OptedInNodeSignals ==
  /\ ChangeEpochStep
  /\ receipt'.epoch = state_epoch
  /\ receipt'.sender \in AppNodes
  /\ node_info[receipt'.sender].participation = "OptedIn"
  /\ node_info[receipt'.sender].staked >= MIN_STAKE

EpochChangeStep == state_epoch' = state_epoch + 1
\* emissions = ((max_inflation / 100) * supply_at_year_start) / epochs_per_year
\* for the year-start supply ys, in fixed-point arithmetic.
StatedEmissions(ys) ==
  hp_div(hp_mul(hp_div(hp_from(genesis_params.max_inflation), hp_from(100)), ys),
         hp_from(genesis_params.epochs_per_year))
\* emissions * share / 100, in fixed-point arithmetic.
StatedPool(ys, share) ==
  hp_mul(StatedEmissions(ys), hp_div(hp_from(share), hp_from(100)))
\* The sum of the node, protocol and service pools.
StatedPools(ys) ==
  StatedPool(ys, genesis_params.node_share)
    + StatedPool(ys, genesis_params.protocol_share)
    + StatedPool(ys, genesis_params.service_builder_share)
\* The epochs of the current year that have ended.
EpochsSinceYearStart(e) == e % genesis_params.epochs_per_year
\* The epoch e is the last of its year.
LastOfYear(e) == EpochsSinceYearStart(e) = genesis_params.epochs_per_year - 1

\* C33 as stated: every completed epoch change increases total_supply by
\* exactly emissions = ((max_inflation / 100) * supply_at_year_start) /
\* epochs_per_year; supply_at_year_start changes only at the last epoch of a
\* year, where it becomes the new total_supply; so total_supply is the
\* year-start supply plus the emissions of the epochs since.
C33_SupplyGrowsByEmissions ==
  [][EpochChangeStep
       => /\ total_supply' = total_supply + StatedEmissions(supply_year_start)
          /\ supply_year_start' =
               IF LastOfYear(state_epoch) THEN total_supply' ELSE supply_year_start
          /\ total_supply' =
               supply_year_start'
                 + EpochsSinceYearStart(state_epoch') * StatedEmissions(supply_year_start')]_vars

\* C33, amended: every completed epoch change in which all three pools are
\* paid out increases total_supply by the sum of the node, protocol and
\* service pools, each emissions * share / 100 truncated to the last
\* decimal: at most the emissions, and less than three units of the last
\* decimal below them when the shares sum to 100; supply_at_year_start
\* changes only at the last epoch of a year, where it becomes the new
\* total_supply; so total_supply is the year-start supply plus the pools of
\* the epochs since.
C33_SupplyGrowsByPools ==
  [][EpochChangeStep
       => /\ total_supply' = total_supply + StatedPools(supply_year_start)
          /\ StatedPools(supply_year_start) <= StatedEmissions(supply_year_start)
          /\ StatedPools(supply_year_start) > StatedEmissions(supply_year_start) - 3
          /\ supply_year_start' =
               IF LastOfYear(state_epoch) THEN total_supply' ELSE supply_year_start
          /\ total_supply' =
               supply_year_start'
                 + EpochsSinceYearStart(state_epoch') * StatedPools(supply_year_start')]_vars

\* With the parameters of the test, the first epoch of the second year has
\* ended: the year-start supply is the total supply at the end of the first
\* year, and the pools minted since are below the emissions.
C33_Witness ==
  /\ genesis_params = TestSupplyParams
  /\ state_epoch = genesis_params.epochs_per_year + 1
  /\ supply_year_start > hp_from(genesis_params.supply_at_genesis)
  /\ total_supply = supply_year_start + StatedPools(supply_year_start)
  /\ StatedPools(supply_year_start) < StatedEmissions(supply_year_start)
  /\ receipt.change_epoch

\* C34: in the step in which the epoch rolls over to e + 1, every pending
\* parcel or attestation whose originator is not in the new committee is
\* discarded, every other pending entry becomes a normal entry, and nothing
\* stays pending; and before that no pending entry is counted or executed:
\* every parcel try_execute submits is a normal entry with a quorum of
\* normal attestations.
C34_PendingResolvedAtRollover ==
  [][/\ (epoch' = epoch + 1
          => /\ pending_parcels' = {}
             /\ pending_attestations' = {}
             /\ \A p \in pending_parcels :
                  p.originator \in st_committee' => p.digest \in parcels'
             /\ \A a \in pending_attestations :
                  a.node_index \in st_committee'
                    => a.node_index \in attestations'[a.digest])
     /\ (out'.try # NoDigest
          => \A i \in 1..Len(out'.submitted) : out'.submitted[i] \in parcels')]_vars

\* ---- the signer
\* The pending transaction of the given id in the queue txs, if any.
PendingOf(txs, id) == {txs[i] : i \in {j \in 1..Len(txs) : txs[j].id = id}}
\* The ids of the transactions in the queue txs.
PendingIds(txs) == {txs[i].id : i \in 1..Len(txs)}
\* The step is a call of sync_with_application.
SyncStep == signer_out'.call = "sync_with_application" /\ signer_out'.before = SignerState
\* TIMEOUT has elapsed since base_timestamp.
TimeoutElapsed == base_timestamp # NoTimestamp /\ now - base_timestamp >= TIMEOUT

\* C35: a transaction is handed to the mempool again only by
\* sync_with_application, when TIMEOUT has elapsed since base_timestamp and
\* its nonce is above the application's; in that pass a transaction that
\* simulate_txn reverts or whose tries has reached MAX_RETRIES leaves the
\* queue without being sent; tries never exceeds MAX_RETRIES and no
\* transaction is taken by the mempool more than MAX_RETRIES times.
C35_ResendOnlyAfterTimeout ==
  [][/\ \A id \in TxIds :
          handed'[id] > handed[id]
            => \/ /\ signer_out'.call = "sign_new_tx"
                  /\ id = signed'
                  /\ handed[id] = 0
               \/ /\ SyncStep
                  /\ TimeoutElapsed
                  /\ id \notin signer_out'.reverts
                  /\ \E tx \in PendingOf(pending_transactions, id) :
                       tx.nonce > app_nonce /\ tx.tries < MAX_RETRIES
     /\ (SyncStep /\ TimeoutElapsed
          => \A id \in TxIds : \A tx \in PendingOf(pending_transactions, id) :
               (tx.nonce > app_nonce /\ (id \in signer_out'.reverts \/ tx.tries >= MAX_RETRIES))
                 => /\ id \notin PendingIds(pending_transactions')
                    /\ handed'[id] = handed[id])
     /\ \A i \in 1..Len(pending_transactions') :
          pending_transactions'[i].tries <= MAX_RETRIES
     /\ \A id \in TxIds : handed'[id] <= MAX_RETRIES]_vars

\* The first transaction was taken by the mempool three times, and the
\* resend pass after the third timeout dropped it, although simulate_txn
\* did not revert it, while the second was resent.
C35_Witness ==
  /\ signer_out.call = "sync_with_application"
  /\ signer_out.resent
  /\ handed[1] = MAX_RETRIES
  /\ 1 \in PendingIds(signer_out.before.pending_transactions)
  /\ 1 \notin signer_out.reverts
  /\ 1 \notin PendingIds(pending_transactions)
  /\ \E p \in signer_out.taken : p.id = 2

\* C36: after any calls of sign_new_tx and sync_with_application the queue
\* holds strictly increasing nonces, all below next_nonce and all above the
\* application nonce the signer has synced with; base_timestamp is set
\* exactly when the queue is not empty; and right after a resend pass the
\* queue carries the nonces base_nonce + 1, base_nonce + 2, ... in order,
\* next_nonce = base_nonce + |pending| + 1, and the secondary nonces differ.
C36_QueueNoncesInOrder ==
  LET txs == pending_transactions IN
  /\ \A i \in 1..Len(txs), j \in 1..Len(txs) : i < j => txs[i].nonce < txs[j].nonce
  /\ \A i \in 1..Len(txs) : txs[i].nonce < next_nonce
  /\ \A i \in 1..Len(txs) : txs[i].nonce > base_nonce
  /\ (base_timestamp # NoTimestamp) = (txs # <<>>)
  /\ (signer_out.call = "sync_with_application" /\ signer_out.resent
       => /\ \A i \in 1..Len(txs) : txs[i].nonce = base_nonce + i
          /\ next_nonce = base_nonce + Len(txs) + 1
          /\ \A i \in 1..Len(txs), j \in 1..Len(txs) :
               i # j => txs[i].secondary_nonce # txs[j].secondary_nonce)

\* ---------------------------------------------------------------- C37
\* What an edge node does with the parcel of digest d once the attestations
\* of the committee are stored: try_execute(d, threshold) from the state E
\* with the parcel in its store.
EdgeReplay(E, d, chg, newc) ==
  try_execute(E, {d}, [x \in {d} |-> st_committee], d, quorum_of(st_committee),
              <<>>, chg, newc)

\* handle_consensus_output as it ran in the step: the application's verdict
\* (whether the block ends the epoch, and the committee it selects) is read
\* off the step.
EmittingStep == handle_consensus_output(ExecState, co.certs, out'.reconfigured, st_committee')

\* The parcels the numbering of the digests tells apart: the stored parcel
\* read back under the digest is the parcel that was hashed.
Numbered(parcel) == ParcelOf(to_digest(parcel), parcel.epoch) = parcel

ExecutedBefore(i) == IF i = 1 THEN GenesisHead ELSE executed_log[i - 1]

\* C38: no digest is submitted to the executor twice, and every executed
\* parcel's last_executed is the digest of the parcel executed immediately
\* before it; so of two stored parcels with the same last_executed at most
\* one is ever executed.
C38_ExecutedParcelsFormOneChain ==
  /\ \A i \in 1..Len(executed_log), j \in 1..Len(executed_log) :
       i # j => executed_log[i] # executed_log[j]
  /\ \A i \in 1..Len(executed_log) :
       LastExecuted(executed_log[i]) = ExecutedBefore(i)
  /\ \A d1 \in parcels, d2 \in parcels :
       (d1 # d2 /\ LastExecuted(d1) = LastExecuted(d2))
         => ~(d1 \in Range(executed_log) /\ d2 \in Range(executed_log))

\* Two parcels built on the genesis head are stored; one of them and the
\* parcel built on it were executed, in one call, the other was not.
C38_Witness ==
  /\ \E d1 \in parcels, d2 \in parcels :
       /\ d1 # d2
       /\ LastExecuted(d1) = LastExecuted(d2)
       /\ d1 \in Range(executed_log)
       /\ d2 \notin Range(executed_log)
  /\ Len(executed_log) = 2
  /\ out.kind = "try_execute"
  /\ Len(out.submitted) = 2

\* ---------------------------------------------------------------- C39
\* C39: the timer fires waiting in the timeout channel are never more than
\* the digests in pending_timeouts, which are at most MAX_PENDING_TIMEOUTS,
\* fewer than the channel holds; so a timer that is still asleep finds room
\* in the channel when it fires, and every pending digest has its timer
\* asleep or its fire in the channel: none is lost.
C39_TimerFiresFitTheChannel ==
  /\ Len(timeout_rx) <= Cardinality(pending_timeouts)
  /\ Cardinality(pending_timeouts) <= MAX_PENDING_TIMEOUTS
  /\ MAX_PENDING_TIMEOUTS < TimeoutChannelCapacity
  /\ (timers # {} => Len(timeout_rx) < TimeoutChannelCapacity)
  /\ timers \cup Range(timeout_rx) = pending_timeouts
  /\ timers \cap Range(timeout_rx) = {}
  /\ Cardinality(Range(timeout_rx)) = Len(timeout_rx)

\* As many timers as the cap allows have fired while the worker was inside a
\* handler, and none of the fires has been received yet.
C39_Witness ==
  /\ Len(timeout_rx) = MAX_PENDING_TIMEOUTS
  /\ Cardinality(pending_timeouts) = MAX_PENDING_TIMEOUTS
  /\ timers = {}
  /\ pc = "handle"

\* ---------------------------------------------------------------- C40
\* C40: handle_parcel and handle_attestation never validate a message with
\* the epoch of one epoch and the committee of another: whenever a handler
\* reads the current epoch from the state, the committee the worker has
\* cached is the committee the state holds for that epoch.
C40_CommitteeOfTheEpochRead ==
  [][(pc = "handle" /\ msg.kind \in {"parcel", "attestation"} /\ pc' = "done")
       => committee = st_committee]_vars

====
